---- MODULE Spec2Model ----
(***************************************************************************)
(* The geometric engine of the Platonic-solid net/fold visualiser          *)
(* (src/src/polyhedra/platonic/*.ts, src/unnamed/part_000) and the state   *)
(* of the React component that drives it (src/src/poly-net-slider-app.tsx).*)
(*                                                                         *)
(* NUMBERS.  The program computes with IEEE doubles.  Every value it       *)
(* computes for the five solids is an algebraic number of the field        *)
(* generated over the rationals by sqrt 2, sqrt 3, sqrt 5, 2 cos 18 deg    *)
(* and the cosine of a quarter of each solid's fold angle.  A number is    *)
(* modelled exactly, as the pair                                           *)
(*      << image of the number in the prime field GF(Prime),               *)
(*         the number in fixed point, in units of 1/Scale >>.              *)
(* The first component is the image under a ring homomorphism: sums,       *)
(* products and quotients are computed in GF(Prime), and two numbers are   *)
(* equal exactly when their images are (up to a coincidence of probability *)
(* about 1/Prime, which the second component excludes).  The second        *)
(* component decides order (<, >, the sign of a number that is not zero).  *)
(* Rounding error of the doubles is not modelled, with one exception: a    *)
(* comparison of two numbers that are exactly equal is decided by rounding *)
(* error in the program, and where the outcome can change a result (the    *)
(* branch taken by Quaternion.setFromRotationMatrix) both outcomes are     *)
(* kept.                                                                   *)
(***************************************************************************)
EXTENDS Integers, Sequences, FiniteSets, TLC

Prime == 64 * 705 + 1
Scale == 2 ^ 12

\* Products in GF(Prime).  Prime * Prime fits a 32-bit integer.
Sq == [x \in 0 .. Prime - 1 |-> (x * x) % Prime]
SqMul == [x \in 0 .. Prime - 1, m \in 0 .. Prime - 1 |-> (((x * x) % Prime) * m) % Prime]

\* The inverse in GF(Prime): m to the power Prime - 2, which is
\* 1011000000111111 in binary, by squaring (bit 0) and squaring and
\* multiplying (bit 1) from the second bit on.
InvMod(m) ==
  SqMul[SqMul[SqMul[SqMul[SqMul[SqMul[
    Sq[Sq[Sq[Sq[Sq[Sq[
      SqMul[SqMul[Sq[m], m], m]]]]]]], m], m], m], m], m], m]

\* The statements of a function of the program run in order:
\* Do(<< s1, ..., sn >>) computes s1, ..., sn in this order and is sn.
Do(s) == s[Len(s)]

RoundDiv(n, d) ==
  IF d < 0 THEN (d \div 2 - n) \div (0 - d) ELSE (n + d \div 2) \div d

Num(n) == << n % Prime, n * Scale >>
Add(a, b) == << (a[1] + b[1]) % Prime, a[2] + b[2] >>
Sub(a, b) == << (a[1] + Prime - b[1]) % Prime, a[2] - b[2] >>
Neg(a) == << (Prime - a[1]) % Prime, 0 - a[2] >>
Mul(a, b) ==
  << (a[1] * b[1]) % Prime,
     (a[2] \div Scale) * b[2] + RoundDiv((a[2] % Scale) * b[2], Scale) >>
Div(a, b) == << (a[1] * InvMod(b[1])) % Prime, RoundDiv(a[2] * Scale, b[2]) >>
Rat(n, d) == Div(Num(n), Num(d))

Zero == Num(0)
One == Num(1)
Two == Num(2)

\* Two numbers are equal when their images are equal and their values in
\* fixed point, which carry the rounding of the fixed-point operations, are
\* within Near (a sixteenth, absolute and relative) of each other.
Abs(n) == IF n < 0 THEN 0 - n ELSE n
Near(a) == Scale \div 16 + Abs(a[2]) \div 16
NumEq(a, b) == a[1] = b[1] /\ Abs(a[2] - b[2]) <= Near(a)
IsZero(a) == NumEq(a, << 0, 0 >>)
Lt(a, b) == ~NumEq(a, b) /\ a[2] < b[2]
Gt(a, b) == Lt(b, a)
Sign(a) == IF IsZero(a) THEN 0 ELSE IF a[2] > 0 THEN 1 ELSE 0 - 1

\* The generators of the field: the image in GF(Prime) of each square root
\* and its value in fixed point.
Sqrt2 == << 15985, 5793 >>
Sqrt3 == << 12018, 7094 >>
Sqrt5 == << 22323, 9159 >>
TwoCos18 == << 19212, 7791 >>
Sqrt6 == Mul(Sqrt2, Sqrt3)
Phi == Div(Add(One, Sqrt5), Two)


----------------------------------------------------------------------------
(***************************************************************************)
(* THREE.Vector3, and the 3x3 rotation part of THREE.Matrix4.               *)
(***************************************************************************)
\* The array with the elements f[1], f[2], ...
Array(f) == SubSeq(f, 1, Len(f))

Vec(x, y, z) == << x, y, z >>
VZero == Vec(Zero, Zero, Zero)
VAdd(a, b) == << Add(a[1], b[1]), Add(a[2], b[2]), Add(a[3], b[3]) >>
VSub(a, b) == << Sub(a[1], b[1]), Sub(a[2], b[2]), Sub(a[3], b[3]) >>
VScale(a, s) == << Mul(a[1], s), Mul(a[2], s), Mul(a[3], s) >>
VDivide(a, s) == << Div(a[1], s), Div(a[2], s), Div(a[3], s) >>
Dot(a, b) == Add(Add(Mul(a[1], b[1]), Mul(a[2], b[2])), Mul(a[3], b[3]))
Cross(a, b) ==
  << Sub(Mul(a[2], b[3]), Mul(a[3], b[2])),
     Sub(Mul(a[3], b[1]), Mul(a[1], b[3])),
     Sub(Mul(a[1], b[2]), Mul(a[2], b[1])) >>
VEq(a, b) == NumEq(a[1], b[1]) /\ NumEq(a[2], b[2]) /\ NumEq(a[3], b[3])

\* Math.sqrt on the values the program takes roots of: the positive element
\* of the field whose square is x.  The roots are rational multiples of the
\* elements of SqrtBase.
SqrtRadicals ==
  { One, Sqrt2, Sqrt3, Sqrt6, Sqrt5, Mul(Sqrt2, Sqrt5), Mul(Sqrt3, Sqrt5) }
SqrtPhiPowers ==
  { Div(One, Mul(Phi, Phi)), Div(One, Phi), One, Phi, Mul(Phi, Phi) }
SqrtCos18 == { One, TwoCos18, Div(One, TwoCos18) }
SqrtBase ==
  { Mul(Mul(a, b), c) : a \in SqrtRadicals, b \in SqrtPhiPowers, c \in SqrtCos18 }
SqrtRat == { Rat(n, d) : n \in 1 .. 64, d \in { 1, 2, 3, 5, 15, 25 } }
SqrtRatSquares == { Sq[q[1]] : q \in SqrtRat }
\* Each element of SqrtBase with the inverse of its square in GF(Prime).
SqrtBaseInverse == { << c, InvMod(Sq[c[1]]) >> : c \in SqrtBase }
IsRoot(r, x) == Abs(Mul(r, r)[2] - x[2]) <= 4 + Abs(x[2]) \div 64
Sqrt(x) ==
  IF IsZero(x) THEN Zero
  ELSE LET ratio(ci) == (x[1] * ci[2]) % Prime
           Fits(ci, q) == Sq[q[1]] = ratio(ci) /\ IsRoot(Mul(ci[1], q), x)
           b == CHOOSE ci \in SqrtBaseInverse :
                  ratio(ci) \in SqrtRatSquares /\ \E q \in SqrtRat : Fits(ci, q)
           r == CHOOSE q \in SqrtRat : Fits(b, q)
       IN Do(<< x, b, r, Mul(b[1], r) >>)

Length(a) == Sqrt(Dot(a, a))
Normalize(a) == LET l == Length(a) IN IF IsZero(l) THEN VZero ELSE VDivide(a, l)

Row(a, b, c) == << a, b, c >>
MIdentity == << Row(One, Zero, Zero), Row(Zero, One, Zero), Row(Zero, Zero, One) >>
MApply(R, v) == << Dot(R[1], v), Dot(R[2], v), Dot(R[3], v) >>
MCol(R, j) == << R[1][j], R[2][j], R[3][j] >>
MTranspose(R) == << MCol(R, 1), MCol(R, 2), MCol(R, 3) >>
MMul(A, B) ==
  << << Dot(A[1], MCol(B, 1)), Dot(A[1], MCol(B, 2)), Dot(A[1], MCol(B, 3)) >>,
     << Dot(A[2], MCol(B, 1)), Dot(A[2], MCol(B, 2)), Dot(A[2], MCol(B, 3)) >>,
     << Dot(A[3], MCol(B, 1)), Dot(A[3], MCol(B, 2)), Dot(A[3], MCol(B, 3)) >> >>
MEq(A, B) == VEq(A[1], B[1]) /\ VEq(A[2], B[2]) /\ VEq(A[3], B[3])
Trace(R) == Add(Add(R[1][1], R[2][2]), R[3][3])


----------------------------------------------------------------------------
(***************************************************************************)
(* ANGLES.  An angle is a record [kind, n]: n units of 3 degrees when kind *)
(* is "deg3", n quarters of the fold angle of a solid when kind names the  *)
(* solid.  Math.cos, Math.sin and Math.atan2 are exact on these angles.    *)
(***************************************************************************)
Pi == 180 \div 3
Deg3(n) == [kind |-> "deg3", n |-> n]

\* cos of m * 3 degrees for the angles of the first quadrant that occur.
CosFirstQuadrant(m) ==
  CASE m = 0 -> One
    [] m = 6 -> Div(TwoCos18, Two)
    [] m = 10 -> Div(Sqrt3, Two)
    [] m = 12 -> Div(Phi, Two)
    [] m = 15 -> Div(Sqrt2, Two)
    [] m = 18 -> Div(TwoCos18, Mul(Two, Phi))
    [] m = 20 -> Rat(1, 2)
    [] m = 24 -> Div(One, Mul(Two, Phi))
    [] m = 30 -> Zero

CosDeg3(n) ==
  LET m == n % (2 * Pi)
  IN IF m <= 30 THEN CosFirstQuadrant(m)
     ELSE IF m <= 60 THEN Neg(CosFirstQuadrant(60 - m))
     ELSE IF m <= 90 THEN Neg(CosFirstQuadrant(m - 60))
     ELSE CosFirstQuadrant(120 - m)
SinDeg3(n) == CosDeg3(n - 30)

\* cos and sin of a quarter of the fold angle (pi minus the dihedral angle)
\* of each solid; the cosine is a generator of the field.
CosQuarterFold(g) ==
  CASE g = "cube" -> << 12553, 3784 >>
    [] g = "tetra" -> << 5397, 3638 >>
    [] g = "octa" -> << 14278, 3904 >>
    [] g = "icosa" -> << 17378, 4028 >>
    [] g = "dodeca" -> << 15695, 3940 >>
SinHalfFold(g) ==
  CASE g = "cube" -> Div(Sqrt2, Two)
    [] g = "tetra" -> Div(Sqrt6, Num(3))
    [] g = "octa" -> Div(Sqrt3, Num(3))
    [] g = "icosa" -> Div(Sub(Phi, One), Sqrt3)
    [] g = "dodeca" -> Div(One, TwoCos18)
SinQuarterFold(g) == Div(SinHalfFold(g), Mul(Two, CosQuarterFold(g)))

CMul(a, b) ==
  << Sub(Mul(a[1], b[1]), Mul(a[2], b[2])), Add(Mul(a[1], b[2]), Mul(a[2], b[1])) >>
RECURSIVE CisFold(_, _)
CisFold(g, n) ==
  IF n = 0 THEN << One, Zero >>
  ELSE IF n < 0 THEN LET c == CisFold(g, 0 - n) IN << c[1], Neg(c[2]) >>
  ELSE CMul(CisFold(g, n - 1), << CosQuarterFold(g), SinQuarterFold(g) >>)

Solids == << "cube", "tetra", "octa", "icosa", "dodeca" >>
\* The hinge angle times t, in quarters of the fold angle, for t from -1 to 2.
FoldQuarters == (0 - 8) .. 8
FoldCis == [g \in { Solids[i] : i \in 1 .. 5 }, n \in FoldQuarters |-> CisFold(g, n)]
Cos(a) == IF a.kind = "deg3" THEN CosDeg3(a.n) ELSE FoldCis[a.kind, a.n][1]
Sin(a) == IF a.kind = "deg3" THEN SinDeg3(a.n) ELSE FoldCis[a.kind, a.n][2]

\* The angles Math.atan2 can return in the program: the fold angles of the
\* solids and the multiples of 18, 30 and 45 degrees in (-180, 180], each
\* with its cosine and sine.
Direction(a) == [angle |-> a, cos |-> Cos(a), sin |-> Sin(a)]
Deg3Grid == { n \in (1 - Pi) .. Pi : n % 6 = 0 \/ n % 10 = 0 \/ n % 15 = 0 }
FoldAngles == { [kind |-> Solids[i], n |-> s * 4] : i \in 1 .. 5, s \in { 0 - 1, 1 } }
FoldDirections == { Direction(a) : a \in FoldAngles }
GridDirections == { Direction(Deg3(n)) : n \in Deg3Grid }
IsDirection(d, y, x) ==
  /\ IsZero(Sub(Mul(d.cos, y), Mul(d.sin, x)))
  /\ Gt(Add(Mul(d.cos, x), Mul(d.sin, y)), Zero)
\* Math.atan2(y, x)
Atan2(y, x) ==
  IF IsZero(x) /\ IsZero(y) THEN Deg3(0)
  ELSE IF \E d \in FoldDirections : IsDirection(d, y, x)
       THEN (CHOOSE d \in FoldDirections : IsDirection(d, y, x)).angle
       ELSE (CHOOSE d \in GridDirections : IsDirection(d, y, x)).angle

\* a - b for two angles of the net plane
ToDeg3(a) ==
  CASE a.kind = "deg3" -> a.n
    [] a.kind = "cube" /\ a.n % 2 = 0 -> 15 * (a.n \div 2)
AngleSub(a, b) == Deg3(ToDeg3(a) - ToDeg3(b))
\* angle * t for t = k / 4
\* The fault of folding the other way: -angle * t.
AngleTimesReversed(a, k) ==
  CASE (a.n * k) % 4 = 0 -> [kind |-> a.kind, n |-> 0 - ((a.n * k) \div 4)]
AngleTimes(a, k) ==
  CASE (a.n * k) % 4 = 0 -> [kind |-> a.kind, n |-> (a.n * k) \div 4]


----------------------------------------------------------------------------
(***************************************************************************)
(* THREE.Quaternion.  A unit quaternion is the rotation matrix R it stands *)
(* for and the sign sg of its first component that is not zero, in the     *)
(* order w, x, y, z: q and -q have the same R and opposite sg, and two     *)
(* quaternions have the same four components exactly when they have the    *)
(* same R and the same sg.  tie is TRUE when rounding decides the sign     *)
(* (setFromRotationMatrix, solve); sg = 0 says it is not determined in     *)
(* the model (poses given in the frame of an interpolated root pose).      *)
(***************************************************************************)
Quat(R, sg, tie) == [R |-> R, sg |-> sg, tie |-> tie]

FirstSign(c) ==
  LET i == CHOOSE j \in 1 .. 4 : ~IsZero(c[j]) /\ \A l \in 1 .. (j - 1) : IsZero(c[l])
  IN Sign(c[i])

\* Matrix4.makeRotationFromQuaternion, from the components x, y, z, w.
RotationOfComponents(x, y, z, w) ==
  LET xx == Mul(Mul(x, x), Two)  yy == Mul(Mul(y, y), Two)  zz == Mul(Mul(z, z), Two)
      xy == Mul(Mul(x, y), Two)  xz == Mul(Mul(x, z), Two)  yz == Mul(Mul(y, z), Two)
      wx == Mul(Mul(w, x), Two)  wy == Mul(Mul(w, y), Two)  wz == Mul(Mul(w, z), Two)
  IN << Row(Sub(One, Add(yy, zz)), Sub(xy, wz), Add(xz, wy)),
        Row(Add(xy, wz), Sub(One, Add(xx, zz)), Sub(yz, wx)),
        Row(Sub(xz, wy), Add(yz, wx), Sub(One, Add(xx, yy))) >>

\* Quaternion.setFromEuler, order XYZ; the angles are in units of 3 degrees.
qFromEuler(x, y, z) ==
  LET c1 == CosDeg3(x \div 2)  s1 == SinDeg3(x \div 2)
      c2 == CosDeg3(y \div 2)  s2 == SinDeg3(y \div 2)
      c3 == CosDeg3(z \div 2)  s3 == SinDeg3(z \div 2)
      qx == Add(Mul(Mul(s1, c2), c3), Mul(Mul(c1, s2), s3))
      qy == Sub(Mul(Mul(c1, s2), c3), Mul(Mul(s1, c2), s3))
      qz == Add(Mul(Mul(c1, c2), s3), Mul(Mul(s1, s2), c3))
      qw == Sub(Mul(Mul(c1, c2), c3), Mul(Mul(s1, s2), s3))
  IN CASE x % 2 = 0 /\ y % 2 = 0 /\ z % 2 = 0 ->
       Do(<< qx, qy, qz, qw,
             Quat(RotationOfComponents(qx, qy, qz, qw), FirstSign(<< qw, qx, qy, qz >>), FALSE) >>)

\* The products 4 * q[i] * q[j] of the components (w, x, y, z) of either
\* quaternion of the rotation R.
ComponentProducts(R) ==
  LET d1 == Add(One, Trace(R))
      d2 == Sub(Add(One, R[1][1]), Add(R[2][2], R[3][3]))
      d3 == Sub(Add(One, R[2][2]), Add(R[1][1], R[3][3]))
      d4 == Sub(Add(One, R[3][3]), Add(R[1][1], R[2][2]))
      wx == Sub(R[3][2], R[2][3])  wy == Sub(R[1][3], R[3][1])  wz == Sub(R[2][1], R[1][2])
      xy == Add(R[1][2], R[2][1])  xz == Add(R[1][3], R[3][1])  yz == Add(R[2][3], R[3][2])
  IN << << d1, wx, wy, wz >>, << wx, d2, xy, xz >>, << wy, xy, d3, yz >>, << wz, xz, yz, d4 >> >>

\* The branches of Quaternion.setFromRotationMatrix that R can take: branch
\* 1 (trace > 0) makes w positive, branches 2, 3, 4 make x, y, z positive.
\* A comparison of two equal numbers is decided by rounding: both ways.
Branches(R) ==
  LET trace == Trace(R)
      m11 == R[1][1]  m22 == R[2][2]  m33 == R[3][3]
      rest == ~Gt(trace, Zero)
      notX == ~(Gt(m11, m22) /\ Gt(m11, m33))
  IN { b \in 1 .. 4 :
         \/ b = 1 /\ ~Lt(trace, Zero)
         \/ b = 2 /\ rest /\ ~Lt(m11, m22) /\ ~Lt(m11, m33)
         \/ b = 3 /\ rest /\ notX /\ ~Lt(m22, m33)
         \/ b = 4 /\ rest /\ notX /\ ~Gt(m22, m33) }

setFromRotationMatrix(R) ==
  LET qq == ComponentProducts(R)
      first == CHOOSE j \in 1 .. 4 : ~IsZero(qq[j][j]) /\ \A l \in 1 .. (j - 1) : IsZero(qq[l][l])
      sgs == { Sign(qq[first][b]) : b \in Branches(R) }
  IN Do(<< qq, Quat(R, IF sgs = { 0 - 1 } THEN 0 - 1 ELSE 1, Cardinality(sgs) = 2) >>)

applyQuaternion(v, q) == MApply(q.R, v)

\* Matrix4.makeBasis
makeBasis(x, y, z) == MTranspose(<< x, y, z >>)

\* Matrix4.makeRotationAxis
makeRotationAxis(axis, angle) ==
  LET c == Cos(angle)  s == Sin(angle)  tc == Sub(One, c)
      x == axis[1]  y == axis[2]  z == axis[3]
      tx == Mul(tc, x)  ty == Mul(tc, y)
  IN Do(<< c, s, axis,
        << Row(Add(Mul(tx, x), c), Sub(Mul(tx, y), Mul(s, z)), Add(Mul(tx, z), Mul(s, y))),
           Row(Add(Mul(tx, y), Mul(s, z)), Add(Mul(ty, y), c), Sub(Mul(ty, z), Mul(s, x))),
           Row(Sub(Mul(tx, z), Mul(s, y)), Add(Mul(ty, z), Mul(s, x)), Add(Mul(Mul(tc, z), z), c)) >> >>)


----------------------------------------------------------------------------
(***************************************************************************)
(* FacePose and the rigid THREE.Matrix4.  t is k / 4.  A slerp between two *)
(* different rotations at a t other than 0 and 1 leaves the field; the     *)
(* root pose it belongs to is then kept as a symbol, root = [t, position], *)
(* and a matrix or pose with that root is the product of the root pose and *)
(* the (R, p) or (position, quaternion) written next to it.  root = << >>  *)
(* is the world frame.                                                     *)
(***************************************************************************)
World == << >>
FacePose(position, quaternion) ==
  [position |-> position, quaternion |-> quaternion, root |-> World]
Matrix4(R, p, root) == [R |-> R, p |-> p, root |-> root]

T(k) == Rat(k, 4)
\* A lerp that starts from b: the fault of exchanging its two ends.
lerpFromEnd(a, b, k) == Add(b, Mul(Sub(a, b), T(k)))
lerp(a, b, k) == Add(a, Mul(Sub(b, a), T(k)))
lerpVec3(a, b, k) == << lerp(a[1], b[1], k), lerp(a[2], b[2], k), lerp(a[3], b[3], k) >>

\* Quaternion.slerp returns a at t = 0, b at t = 1, and a when a and b are
\* the same rotation; Interpolated says that none of these is the case.
Interpolated(a, b, k) == k # 0 /\ k # 4 /\ ~MEq(a.R, b.R)
slerpQuat(a, b, k) == IF k = 0 THEN a ELSE IF k = 4 THEN b ELSE a

poseToMatrix(p) == Matrix4(p.quaternion.R, p.position, p.root)
matrixToPose(m) ==
  [position |-> m.p,
   quaternion |-> IF m.root = World THEN setFromRotationMatrix(m.R) ELSE Quat(m.R, 0, FALSE),
   root |-> m.root]

\* a.multiply(b), for b in the world frame
multiply(a, b) == Matrix4(MMul(a.R, b.R), VAdd(MApply(a.R, b.p), a.p), a.root)
invert(a) == Matrix4(MTranspose(a.R), MApply(MTranspose(a.R), VSub(VZero, a.p)), a.root)
makeTranslation(v) == Matrix4(MIdentity, v, World)
applyMatrix4(v, m) == [v |-> VAdd(MApply(m.R, v), m.p), root |-> m.root]

triangleLocal3(edge) ==
  LET h == Mul(Div(Sqrt(Num(3)), Two), edge)
  IN << Vec(Div(Neg(edge), Two), Div(Neg(h), Num(3)), Zero),
        Vec(Div(edge, Two), Div(Neg(h), Num(3)), Zero),
        Vec(Zero, Div(Mul(Two, h), Num(3)), Zero) >>

squareLocal3(edge) ==
  << Vec(Div(Neg(edge), Two), Div(Neg(edge), Two), Zero),
     Vec(Div(edge, Two), Div(Neg(edge), Two), Zero),
     Vec(Div(edge, Two), Div(edge, Two), Zero),
     Vec(Div(Neg(edge), Two), Div(edge, Two), Zero) >>

pentagonLocal3(edge) ==
  LET R == Div(edge, Mul(Two, SinDeg3(Pi \div 5)))
      offset == (0 - 7 * Pi) \div 10
      a(i) == offset + (i * 2 * Pi) \div 5
      verts == Array([i \in 1 .. 5 |-> Vec(Mul(R, CosDeg3(a(i - 1))), Mul(R, SinDeg3(a(i - 1))), Zero)])
      sum == VAdd(VAdd(VAdd(VAdd(verts[1], verts[2]), verts[3]), verts[4]), verts[5])
      centroid == VDivide(sum, Num(5))
  IN Do(<< R, verts, sum, centroid,
        << VSub(verts[1], centroid), VSub(verts[2], centroid), VSub(verts[3], centroid),
           VSub(verts[4], centroid), VSub(verts[5], centroid) >> >>)

localVerts3(face, edge) ==
  IF face = "square" THEN squareLocal3(edge)
  ELSE IF face = "pentagon" THEN pentagonLocal3(edge)
  ELSE triangleLocal3(edge)

\* quantKey3 rounds each coordinate to a multiple of 1e-4.  Coordinates that
\* are equal have the same key; the model gives different keys to different
\* coordinates (those of the five solids differ by far more than 1e-4).
quantKey3(v) == << v[1][1], v[2][1], v[3][1] >>
\* The fault of keeping the two ends in the order of the edge.
KeyAsGiven(ka, kb) == FALSE
KeyLess(ka, kb) ==
  \/ ka[1] < kb[1]
  \/ ka[1] = kb[1] /\ ka[2] < kb[2]
  \/ ka[1] = kb[1] /\ ka[2] = kb[2] /\ ka[3] < kb[3]

\* The two ends in the order of the edge: the fault of a key that is not
\* ordered.
edgeKeyInOrder(ka, kb) == << ka, kb >>
\* const key = ka < kb ? `${ka}|${kb}` : `${kb}|${ka}`
edgeKey(ka, kb) == IF KeyLess(ka, kb) THEN << ka, kb >> ELSE << kb, ka >>

\* The pushes of the first loop of netAdjEdges in the order they are made:
\* faces in order, the edges of a face in order, each under its key.  Faces
\* and edges are numbered from 0.
edgePushes(net, vertsLocal) ==
  LET n == Len(vertsLocal)
      world(p, v) == VAdd(applyQuaternion(v, p.quaternion), p.position)
      push(idx) ==
        LET fi == (idx - 1) \div n
            k == (idx - 1) % n
            ka == quantKey3(world(net[fi + 1], vertsLocal[k + 1]))
            kb == quantKey3(world(net[fi + 1], vertsLocal[((k + 1) % n) + 1]))
        IN [idx |-> idx, fi |-> fi, edgeIndex |-> k, key |-> edgeKey(ka, kb)]
  IN Do(<< net, vertsLocal, Array([idx \in 1 .. Len(net) * n |-> push(idx)]) >>)

\* edgeMap.get(key): the pushes made under the key, in order.
edgeMapGet(pushes, key) ==
  LET HasKey(e) == e.key = key IN SelectSeq(pushes, HasKey)

\* edgeMap.values(): a Map iterates in the order its keys were first set.
edgeMapValues(pushes) ==
  LET IsFirst(e) == \A j \in 1 .. (e.idx - 1) : pushes[j].key # e.key
      firsts == SelectSeq(pushes, IsFirst)
  IN Do(<< pushes, firsts, Array([i \in 1 .. Len(firsts) |-> edgeMapGet(pushes, firsts[i].key)]) >>)

\* An extractor that takes the first two pushes of any key pushed at least
\* twice: the fault of testing arr.length >= 2.
netAdjEdgesOfTwoOrMore(net, face, edge) ==
  LET vertsLocal == localVerts3(face, edge)
      values == edgeMapValues(edgePushes(net, vertsLocal))
      IsPair(arr) == Len(arr) >= 2
      pairs == SelectSeq(values, IsPair)
  IN Do(<< vertsLocal, values, pairs,
        Array([i \in 1 .. Len(pairs) |->
          [a |-> pairs[i][1].fi, b |-> pairs[i][2].fi,
           edgeA |-> pairs[i][1].edgeIndex, edgeB |-> pairs[i][2].edgeIndex]]) >>)

\* An extractor whose records name the second contributor first: the fault
\* of const [e1, e0] = arr.
netAdjEdgesSecondFirst(net, face, edge) ==
  LET vertsLocal == localVerts3(face, edge)
      values == edgeMapValues(edgePushes(net, vertsLocal))
      IsPair(arr) == Len(arr) = 2
      pairs == SelectSeq(values, IsPair)
  IN Do(<< vertsLocal, values, pairs,
        Array([i \in 1 .. Len(pairs) |->
          [a |-> pairs[i][2].fi, b |-> pairs[i][1].fi,
           edgeA |-> pairs[i][2].edgeIndex, edgeB |-> pairs[i][1].edgeIndex]]) >>)

netAdjEdges(net, face, edge) ==
  LET vertsLocal == localVerts3(face, edge)
      values == edgeMapValues(edgePushes(net, vertsLocal))
      IsPair(arr) == Len(arr) = 2
      pairs == SelectSeq(values, IsPair)
  IN Do(<< vertsLocal, values, pairs,
        Array([i \in 1 .. Len(pairs) |->
          [a |-> pairs[i][1].fi, b |-> pairs[i][2].fi,
           edgeA |-> pairs[i][1].edgeIndex, edgeB |-> pairs[i][2].edgeIndex]]) >>)

----------------------------------------------------------------------------
(***************************************************************************)
(* The hinge model.  Faces are numbered from 0 as in the program; face i   *)
(* is element i + 1 of net, folded, hinges.  A value that can be null is   *)
(* the empty sequence when null and a one-element sequence otherwise.      *)
(***************************************************************************)
Null == << >>
Some(x) == << x >>

\* One key for every pair: the fault of a filter that lets every edge of
\* the net through.
pairKeyOfAny(e) == << 0, 0 >>
pairKey(e) == IF e.a < e.b THEN << e.a, e.b >> ELSE << e.b, e.a >>

\* No test of the two lengths: 1 / 0 is Infinity, the scaled vector has
\* 0 * Infinity for components and Math.atan2 returns NaN.
signedAngleUnguarded(from, to, axis) ==
  LET a == Normalize(axis)
      v0 == VSub(from, VScale(a, Dot(a, from)))
      v1 == VSub(to, VScale(a, Dot(a, to)))
      l0 == Length(v0)
      l1 == Length(v1)
      u0 == VScale(v0, Div(One, l0))
      u1 == VScale(v1, Div(One, l1))
      sin == Dot(a, Cross(u0, u1))
      cos == Dot(u0, u1)
  IN Do(<< a, v0, v1, l0, l1,
        IF IsZero(l0) \/ IsZero(l1) THEN [kind |-> "NaN", n |-> 0]
        ELSE Do(<< u0, u1, sin, cos, Atan2(sin, cos) >>) >>)

signedAngleAroundAxis(from, to, axis) ==
  LET a == Normalize(axis)
      v0 == VSub(from, VScale(a, Dot(a, from)))
      v1 == VSub(to, VScale(a, Dot(a, to)))
      l0 == Length(v0)
      l1 == Length(v1)
      u0 == VScale(v0, Div(One, l0))
      u1 == VScale(v1, Div(One, l1))
      sin == Dot(a, Cross(u0, u1))
      cos == Dot(u0, u1)
  IN Do(<< a, v0, v1, l0, l1,
        IF IsZero(l0) \/ IsZero(l1) THEN Deg3(0) ELSE Do(<< u0, u1, sin, cos, Atan2(sin, cos) >>) >>)

\* The fault of turning about the axis through the origin, the pivot lost.
rotationAroundAxis(axisUnit, pointOnAxis, angle) ==
  Matrix4(makeRotationAxis(axisUnit, angle), VZero, World)

rotationAroundAxisLine(axisUnit, pointOnAxis, angle) ==
  LET T1 == makeTranslation(pointOnAxis)
      T2 == makeTranslation(VSub(VZero, pointOnAxis))
      R == Matrix4(makeRotationAxis(axisUnit, angle), VZero, World)
  IN Do(<< T1, T2, R, multiply(multiply(T1, R), T2) >>)

\* The fault of listing each adjacency under its first face only.
adjListOneWay(adj, v) ==
  LET entries == Array([j \in 1 .. Len(adj) |->
                   [from |-> adj[j].a, to |-> adj[j].b,
                    edgeFrom |-> adj[j].edgeA, edgeTo |-> adj[j].edgeB]])
      IsFrom(x) == x.from = v
  IN SelectSeq(entries, IsFrom)

\* adjList after the loop over adj: each record of adj pushes an entry to
\* the list of e.a and then one to the list of e.b.
adjListOf(adj, v) ==
  LET entry(j) ==
        LET e == adj[(j + 1) \div 2]
        IN IF j % 2 = 1
           THEN [from |-> e.a, to |-> e.b, edgeFrom |-> e.edgeA, edgeTo |-> e.edgeB]
           ELSE [from |-> e.b, to |-> e.a, edgeFrom |-> e.edgeB, edgeTo |-> e.edgeA]
      entries == Array([j \in 1 .. 2 * Len(adj) |-> entry(j)])
      IsFrom(x) == x.from = v
  IN Do(<< entries, SelectSeq(entries, IsFrom) >>)

\* The inner loop of the search: the entries j .. of adjList[v].  The net
\* builders run the same search and record childEdge as well; buildHingeModel
\* does not read it.
RECURSIVE visitNeighbours(_, _, _, _)
visitNeighbours(st, v, list, j) ==
  IF j > Len(list) THEN st
  ELSE LET e == list[j]
       IN IF st.parent[e.to + 1] # 0 - 1
          THEN visitNeighbours(st, v, list, j + 1)
          ELSE visitNeighbours(
                 [parent |-> [st.parent EXCEPT ![e.to + 1] = v],
                  parentEdge |-> [st.parentEdge EXCEPT ![e.to + 1] = e.edgeFrom],
                  childEdge |-> [st.childEdge EXCEPT ![e.to + 1] = e.edgeTo],
                  q |-> Append(st.q, e.to),
                  order |-> Append(st.order, e.to)],
                 v, list, j + 1)

\* while (q.length) { v = q.shift(); ... }
RECURSIVE breadthFirst(_, _)
breadthFirst(st, adj) ==
  IF st.q = << >> THEN st
  ELSE LET v == Head(st.q)
           popped == [st EXCEPT !.q = Tail(st.q)]
       IN breadthFirst(visitNeighbours(popped, v, adjListOf(adj, v), 1), adj)

\* A search whose order starts empty: the fault of not entering the root.
searchStartAfterRoot(faceCount, root) ==
  [parent |-> Array([i \in 1 .. faceCount |-> IF i = root + 1 THEN root ELSE 0 - 1]),
   parentEdge |-> Array([i \in 1 .. faceCount |-> 0 - 1]),
   childEdge |-> Array([i \in 1 .. faceCount |-> 0 - 1]),
   q |-> << root >>,
   order |-> << >>]

searchStart(faceCount, root) ==
  [parent |-> Array([i \in 1 .. faceCount |-> IF i = root + 1 THEN root ELSE 0 - 1]),
   parentEdge |-> Array([i \in 1 .. faceCount |-> 0 - 1]),
   childEdge |-> Array([i \in 1 .. faceCount |-> 0 - 1]),
   q |-> << root >>,
   order |-> << root >>]

\* The search started at the last face: the fault of another root than the
\* one the net was laid out from.
hingeTreeFromLast(def) ==
  LET root == def.faceCount - 1
      foldAdj == netAdjEdges(def.folded, def.face, def.edge)
      foldPairs == { pairKey(foldAdj[i]) : i \in 1 .. Len(foldAdj) }
      InFold(e) == pairKey(e) \in foldPairs
      adj == SelectSeq(netAdjEdges(def.net, def.face, def.edge), InFold)
  IN Do(<< foldAdj, adj, breadthFirst(searchStart(def.faceCount, root), adj) >>)

\* The search over the whole adjacency of the net: the fault of a missing
\* filter.
hingeTreeOfNet(def) ==
  LET root == 0
      adj == netAdjEdges(def.net, def.face, def.edge)
  IN Do(<< adj, breadthFirst(searchStart(def.faceCount, root), adj) >>)

\* The first half of buildHingeModel: the adjacency of the net kept where the
\* folded poses have it too, and the search over it from the root, which
\* leaves parent, parentEdge and order.
hingeTree(def) ==
  LET root == 0
      foldAdj == netAdjEdges(def.folded, def.face, def.edge)
      foldPairs == { pairKey(foldAdj[i]) : i \in 1 .. Len(foldAdj) }
      InFold(e) == pairKey(e) \in foldPairs
      adj == SelectSeq(netAdjEdges(def.net, def.face, def.edge), InFold)
  IN Do(<< foldAdj, adj, breadthFirst(searchStart(def.faceCount, root), adj) >>)

\* The edge of face i itself: the fault of parentEdge[e.to] = e.edgeTo.
hingeEdgeOfChild(tree, i) == tree.childEdge[i + 1]
\* const eIdx = parentEdge[i], and parentEdge[e.to] = e.edgeFrom in the search
hingeEdge(tree, i) == tree.parentEdge[i + 1]

\* The edge vector as it is: the fault of a missing normalize().
hingeAxisOfEdge(pA, pB) == VSub(pB, pA)
\* const axis = pB.clone().sub(pA).normalize()
hingeAxis(pA, pB) == Normalize(VSub(pB, pA))

buildHingeModel(def) ==
  LET faceCount == def.faceCount
      vertsLocal == localVerts3(def.face, def.edge)
      nVerts == Len(vertsLocal)
      root == 0
      tree == hingeTree(def)
      netM == Array([i \in 1 .. Len(def.net) |-> poseToMatrix(def.net[i])])
      foldM == Array([i \in 1 .. Len(def.folded) |-> poseToMatrix(def.folded[i])])
      localNormal == Vec(Zero, Zero, One)
      hinge(i) ==
        LET p == tree.parent[i + 1]
            relNet == multiply(invert(netM[p + 1]), netM[i + 1])
            relFold == multiply(invert(foldM[p + 1]), foldM[i + 1])
            qRelNet == setFromRotationMatrix(relNet.R)
            qRelFold == setFromRotationMatrix(relFold.R)
            n0 == Normalize(applyQuaternion(localNormal, qRelNet))
            n1 == Normalize(applyQuaternion(localNormal, qRelFold))
            eIdx == hingeEdge(tree, i)
            pA == vertsLocal[eIdx + 1]
            pB == vertsLocal[((eIdx + 1) % nVerts) + 1]
            axis == hingeAxis(pA, pB)
            angle == signedAngleAroundAxis(n0, n1, axis)
        IN IF i = root \/ p = 0 - 1 \/ eIdx < 0 THEN Null
           ELSE Do(<< relNet, relFold, qRelNet, qRelFold, n0, n1, axis, angle,
                      Some([parent |-> p, axis |-> axis, point |-> pA,
                            relNet |-> relNet, angle |-> angle]) >>)
  IN Do(<< vertsLocal, tree, netM, foldM,
        [root |-> root, order |-> tree.order,
         hinges |-> Array([i \in 1 .. faceCount |-> hinge(i - 1)])] >>)

\* The loop of hingePoses over model.order, entries j .. ; worldM[i + 1] is
\* the matrix of face i or Null.
RECURSIVE worldMatrices(_, _, _, _)
worldMatrices(worldM, model, k, j) ==
  IF j > Len(model.order) THEN worldM
  ELSE LET i == model.order[j]
           h == model.hinges[i + 1]
           parentM == worldM[h[1].parent + 1]
           H == rotationAroundAxisLine(h[1].axis, h[1].point, AngleTimes(h[1].angle, k))
       IN IF i = model.root \/ h = Null \/ parentM = Null
          THEN worldMatrices(worldM, model, k, j + 1)
          ELSE LET M == multiply(multiply(parentM[1], H), h[1].relNet)
               IN Do(<< H, M, worldMatrices([worldM EXCEPT ![i + 1] = Some(M)], model, k, j + 1) >>)

\* hingePoses with the folded pose for a face without a world matrix: the
\* fault of falling back to the wrong array.
hingePosesOrFolded(def, model, k) ==
  LET root == model.root
      a == def.net[root + 1]
      b == def.folded[root + 1]
      position == lerpVec3(a.position, b.position, k)
      rootPose ==
        IF Interpolated(a.quaternion, b.quaternion, k)
        THEN [position |-> VZero, quaternion |-> Quat(MIdentity, 1, FALSE),
              root |-> [t |-> k, position |-> position]]
        ELSE FacePose(position, slerpQuat(a.quaternion, b.quaternion, k))
      worldM0 == Array([i \in 1 .. def.faceCount |-> IF i = root + 1 THEN Some(poseToMatrix(rootPose)) ELSE Null])
      worldM == worldMatrices(worldM0, model, k, 1)
  IN Do(<< position, rootPose, worldM0, worldM,
        Array([i \in 1 .. def.faceCount |->
          IF worldM[i] # Null THEN matrixToPose(worldM[i][1]) ELSE def.folded[i]]) >>)

\* hingePoses with t held in [0, 1]: the fault of a clamp.
hingePosesClamped(def, model, k) ==
  LET kc == IF k < 0 THEN 0 ELSE IF k > 4 THEN 4 ELSE k
      root == model.root
      a == def.net[root + 1]
      b == def.folded[root + 1]
      position == lerpVec3(a.position, b.position, kc)
      rootPose ==
        IF Interpolated(a.quaternion, b.quaternion, kc)
        THEN [position |-> VZero, quaternion |-> Quat(MIdentity, 1, FALSE),
              root |-> [t |-> kc, position |-> position]]
        ELSE FacePose(position, slerpQuat(a.quaternion, b.quaternion, kc))
      worldM0 == Array([i \in 1 .. def.faceCount |-> IF i = root + 1 THEN Some(poseToMatrix(rootPose)) ELSE Null])
      worldM == worldMatrices(worldM0, model, kc, 1)
  IN Do(<< position, rootPose, worldM0, worldM,
        Array([i \in 1 .. def.faceCount |->
          IF worldM[i] # Null THEN matrixToPose(worldM[i][1]) ELSE def.net[i]]) >>)

hingePoses(def, model, k) ==
  LET root == model.root
      a == def.net[root + 1]
      b == def.folded[root + 1]
      position == lerpVec3(a.position, b.position, k)
      rootPose ==
        IF Interpolated(a.quaternion, b.quaternion, k)
        THEN [position |-> VZero, quaternion |-> Quat(MIdentity, 1, FALSE),
              root |-> [t |-> k, position |-> position]]
        ELSE FacePose(position, slerpQuat(a.quaternion, b.quaternion, k))
      worldM0 == Array([i \in 1 .. def.faceCount |-> IF i = root + 1 THEN Some(poseToMatrix(rootPose)) ELSE Null])
      worldM == worldMatrices(worldM0, model, k, 1)
  IN Do(<< position, rootPose, worldM0, worldM,
        Array([i \in 1 .. def.faceCount |->
          IF worldM[i] # Null THEN matrixToPose(worldM[i][1]) ELSE def.net[i]]) >>)

\* The poses as they are: the fault of not centering.
posesAsPlaced(facePoses) == facePoses
\* The poses moved so that the first one is at the origin: the fault of
\* taking the first position for the mean.
centerPosesOnFirst(facePoses) ==
  Array([i \in 1 .. Len(facePoses) |->
    FacePose(VSub(facePoses[i].position, facePoses[1].position), facePoses[i].quaternion)])

centerPoses(facePoses) ==
  LET RECURSIVE sum(_)
      sum(i) == IF i = 0 THEN VZero ELSE VAdd(sum(i - 1), facePoses[i].position)
      center == VScale(sum(Len(facePoses)), Div(One, Num(Len(facePoses))))
  IN Do(<< facePoses, center,
        Array([i \in 1 .. Len(facePoses) |->
          FacePose(VSub(facePoses[i].position, center), facePoses[i].quaternion)]) >>)

\* A net in which face 3 is laid next to face 1: the fault of a lost sign.
cubeNetThreeByOne(s) ==
  << FacePose(Vec(Zero, Zero, Zero), qFromEuler(0, 0, 0)),
     FacePose(Vec(Neg(s), Zero, Zero), qFromEuler(0, 0, 0)),
     FacePose(Vec(s, Zero, Zero), qFromEuler(0, 0, 0)),
     FacePose(Vec(Neg(Mul(Two, s)), Zero, Zero), qFromEuler(0, 0, 0)),
     FacePose(Vec(Zero, s, Zero), qFromEuler(0, 0, 0)),
     FacePose(Vec(Zero, Neg(s), Zero), qFromEuler(0, 0, 0)) >>

\* const net of createCubeDef
cubeNet(s) ==
  << FacePose(Vec(Zero, Zero, Zero), qFromEuler(0, 0, 0)),
     FacePose(Vec(Neg(s), Zero, Zero), qFromEuler(0, 0, 0)),
     FacePose(Vec(s, Zero, Zero), qFromEuler(0, 0, 0)),
     FacePose(Vec(Mul(Two, s), Zero, Zero), qFromEuler(0, 0, 0)),
     FacePose(Vec(Zero, s, Zero), qFromEuler(0, 0, 0)),
     FacePose(Vec(Zero, Neg(s), Zero), qFromEuler(0, 0, 0)) >>

\* A cube with two faces on +z and none on -z: the fault of a lost sign.
cubeFoldedTwoTops(half) ==
  << FacePose(Vec(Zero, Zero, half), qFromEuler(0, 0, 0)),
     FacePose(Vec(Neg(half), Zero, Zero), qFromEuler(0, 0 - Pi \div 2, 0)),
     FacePose(Vec(half, Zero, Zero), qFromEuler(0, Pi \div 2, 0)),
     FacePose(Vec(Zero, Zero, half), qFromEuler(0, Pi, 0)),
     FacePose(Vec(Zero, half, Zero), qFromEuler(0 - Pi \div 2, 0, 0)),
     FacePose(Vec(Zero, Neg(half), Zero), qFromEuler(Pi \div 2, 0, 0)) >>

\* const folded of createCubeDef
cubeFolded(half) ==
  << FacePose(Vec(Zero, Zero, half), qFromEuler(0, 0, 0)),
     FacePose(Vec(Neg(half), Zero, Zero), qFromEuler(0, 0 - Pi \div 2, 0)),
     FacePose(Vec(half, Zero, Zero), qFromEuler(0, Pi \div 2, 0)),
     FacePose(Vec(Zero, Zero, Neg(half)), qFromEuler(0, Pi, 0)),
     FacePose(Vec(Zero, half, Zero), qFromEuler(0 - Pi \div 2, 0, 0)),
     FacePose(Vec(Zero, Neg(half), Zero), qFromEuler(Pi \div 2, 0, 0)) >>

createCubeDef(edge) ==
  LET s == edge
      net == cubeNet(s)
      half == Div(edge, Two)
      folded == cubeFolded(half)
      netCentered == centerPoses(net)
  IN Do(<< net, folded, netCentered,
        [id |-> "cube", faceCount |-> 6, face |-> "square", edge |-> edge,
         net |-> netCentered, folded |-> folded] >>)


----------------------------------------------------------------------------
(***************************************************************************)
(* The planar nets.  A 2D pose is [pos, rot, tie] with rot in units of 3   *)
(* degrees, not reduced modulo a full turn.  tie is TRUE when the target   *)
(* edge points along the negative x axis: Math.atan2 is then pi or -pi as  *)
(* rounding has it, rot is known up to a full turn and the quaternion of   *)
(* the pose up to its sign.                                                *)
(***************************************************************************)
Vec2(x, y) == << x, y >>
triangleLocal2(edge) ==
  LET v == triangleLocal3(edge)
  IN << Vec2(v[1][1], v[1][2]), Vec2(v[2][1], v[2][2]), Vec2(v[3][1], v[3][2]) >>
pentagonLocal2(edge) ==
  LET v == pentagonLocal3(edge) IN Array([i \in 1 .. 5 |-> Vec2(v[i][1], v[i][2])])

applyPose2(pose, v) ==
  LET c == CosDeg3(pose.rot)
      s == SinDeg3(pose.rot)
  IN Vec2(Add(Sub(Mul(v[1], c), Mul(v[2], s)), pose.pos[1]),
          Add(Add(Mul(v[1], s), Mul(v[2], c)), pose.pos[2]))
cross2(a, b) == Sub(Mul(a[1], b[2]), Mul(a[2], b[1]))

\* solve(t0, t1) of attachTriangleAlongEdge and attachPolygonAlongEdge
solve(t0, t1, local0, local1) ==
  LET vTarget == Vec2(Sub(t1[1], t0[1]), Sub(t1[2], t0[2]))
      vLocal == Vec2(Sub(local1[1], local0[1]), Sub(local1[2], local0[2]))
      rot == AngleSub(Atan2(vTarget[2], vTarget[1]), Atan2(vLocal[2], vLocal[1])).n
      cRot == CosDeg3(rot)
      sRot == SinDeg3(rot)
  IN Do(<< vTarget, vLocal, rot, cRot, sRot,
        [pos |-> Vec2(Sub(t0[1], Sub(Mul(local0[1], cRot), Mul(local0[2], sRot))),
                      Sub(t0[2], Add(Mul(local0[1], sRot), Mul(local0[2], cRot)))),
         rot |-> rot,
         tie |-> Atan2(vTarget[2], vTarget[1]) = Deg3(Pi)] >>)

\* The first candidate also when its side test is zero: the fault of
\* testing pick <= 0.
attachTriangleFirstOnTie(parent, parentEdge, childEdge, tri) ==
  LET pv == Array([i \in 1 .. 3 |-> applyPose2(parent, tri[i])])
      edgeDef == << [i0 |-> 0, i1 |-> 1, iOpp |-> 2],
                    [i0 |-> 1, i1 |-> 2, iOpp |-> 0],
                    [i0 |-> 2, i1 |-> 0, iOpp |-> 1] >>
      p == edgeDef[parentEdge + 1]
      c == edgeDef[childEdge + 1]
      e0 == pv[p.i0 + 1]
      e1 == pv[p.i1 + 1]
      parentThird == pv[p.iOpp + 1]
      local0 == tri[c.i0 + 1]
      local1 == tri[c.i1 + 1]
      localOpp == tri[c.iOpp + 1]
      v01 == Vec2(Sub(e1[1], e0[1]), Sub(e1[2], e0[2]))
      parentSide == cross2(v01, Vec2(Sub(parentThird[1], e0[1]), Sub(parentThird[2], e0[2])))
      candidates == << solve(e0, e1, local0, local1), solve(e1, e0, local0, local1) >>
      pick(cand) ==
        LET thirdWorld == applyPose2(cand, localOpp)
            childSide == cross2(v01, Vec2(Sub(thirdWorld[1], e0[1]), Sub(thirdWorld[2], e0[2])))
        IN Do(<< thirdWorld, childSide,
              IF IsZero(parentSide) THEN childSide ELSE Mul(parentSide, childSide) >>)
  IN Do(<< pv, v01, parentSide, candidates,
        IF ~Gt(pick(candidates[1]), Zero) THEN candidates[1] ELSE candidates[2] >>)

attachTriangleAlongEdge(parent, parentEdge, childEdge, tri) ==
  LET pv == Array([i \in 1 .. 3 |-> applyPose2(parent, tri[i])])
      edgeDef == << [i0 |-> 0, i1 |-> 1, iOpp |-> 2],
                    [i0 |-> 1, i1 |-> 2, iOpp |-> 0],
                    [i0 |-> 2, i1 |-> 0, iOpp |-> 1] >>
      p == edgeDef[parentEdge + 1]
      c == edgeDef[childEdge + 1]
      e0 == pv[p.i0 + 1]
      e1 == pv[p.i1 + 1]
      parentThird == pv[p.iOpp + 1]
      local0 == tri[c.i0 + 1]
      local1 == tri[c.i1 + 1]
      localOpp == tri[c.iOpp + 1]
      v01 == Vec2(Sub(e1[1], e0[1]), Sub(e1[2], e0[2]))
      parentSide == cross2(v01, Vec2(Sub(parentThird[1], e0[1]), Sub(parentThird[2], e0[2])))
      candidates == << solve(e0, e1, local0, local1), solve(e1, e0, local0, local1) >>
      pick(cand) ==
        LET thirdWorld == applyPose2(cand, localOpp)
            childSide == cross2(v01, Vec2(Sub(thirdWorld[1], e0[1]), Sub(thirdWorld[2], e0[2])))
        IN Do(<< thirdWorld, childSide,
              IF IsZero(parentSide) THEN childSide ELSE Mul(parentSide, childSide) >>)
  IN Do(<< pv, v01, parentSide, candidates,
        IF Lt(pick(candidates[1]), Zero) THEN candidates[1] ELSE candidates[2] >>)

Centroid2(pts) ==
  LET RECURSIVE sum(_)
      sum(i) == IF i = 0 THEN Vec2(Zero, Zero)
                ELSE Vec2(Add(sum(i - 1)[1], pts[i][1]), Add(sum(i - 1)[2], pts[i][2]))
      total == sum(Len(pts))
      inv == Div(One, Num(Len(pts)))
  IN Do(<< total, inv, Vec2(Mul(total[1], inv), Mul(total[2], inv)) >>)

\* The candidate on the side of the parent: the fault of the reversed
\* comparison.
attachPolygonOnParent(parent, parentEdge, childEdge, poly) ==
  LET n == Len(poly)
      pv == Array([i \in 1 .. n |-> applyPose2(parent, poly[i])])
      e0 == pv[(parentEdge % n) + 1]
      e1 == pv[((parentEdge + 1) % n) + 1]
      centroidParent == Centroid2(pv)
      v01 == Vec2(Sub(e1[1], e0[1]), Sub(e1[2], e0[2]))
      parentSide == cross2(v01, Vec2(Sub(centroidParent[1], e0[1]), Sub(centroidParent[2], e0[2])))
      local0 == poly[(childEdge % n) + 1]
      local1 == poly[((childEdge + 1) % n) + 1]
      candidates == << solve(e0, e1, local0, local1), solve(e1, e0, local0, local1) >>
      sideFor(cand) ==
        LET centroidChild == Centroid2(Array([i \in 1 .. n |-> applyPose2(cand, poly[i])]))
        IN Do(<< centroidChild,
              cross2(v01, Vec2(Sub(centroidChild[1], e0[1]), Sub(centroidChild[2], e0[2]))) >>)
      side0 == sideFor(candidates[1])
      pick0 == IF IsZero(parentSide) THEN side0 ELSE Mul(parentSide, side0)
  IN IF n < 3 THEN parent
     ELSE Do(<< pv, centroidParent, v01, parentSide, candidates, side0, pick0,
             IF Gt(pick0, Zero) THEN candidates[1] ELSE candidates[2] >>)

attachPolygonAlongEdge(parent, parentEdge, childEdge, poly) ==
  LET n == Len(poly)
      pv == Array([i \in 1 .. n |-> applyPose2(parent, poly[i])])
      e0 == pv[(parentEdge % n) + 1]
      e1 == pv[((parentEdge + 1) % n) + 1]
      centroidParent == Centroid2(pv)
      v01 == Vec2(Sub(e1[1], e0[1]), Sub(e1[2], e0[2]))
      parentSide == cross2(v01, Vec2(Sub(centroidParent[1], e0[1]), Sub(centroidParent[2], e0[2])))
      local0 == poly[(childEdge % n) + 1]
      local1 == poly[((childEdge + 1) % n) + 1]
      candidates == << solve(e0, e1, local0, local1), solve(e1, e0, local0, local1) >>
      sideFor(cand) ==
        LET centroidChild == Centroid2(Array([i \in 1 .. n |-> applyPose2(cand, poly[i])]))
        IN Do(<< centroidChild,
              cross2(v01, Vec2(Sub(centroidChild[1], e0[1]), Sub(centroidChild[2], e0[2]))) >>)
      side0 == sideFor(candidates[1])
      pick0 == IF IsZero(parentSide) THEN side0 ELSE Mul(parentSide, side0)
  IN IF n < 3 THEN parent
     ELSE Do(<< pv, centroidParent, v01, parentSide, candidates, side0, pick0,
             IF Lt(pick0, Zero) THEN candidates[1] ELSE candidates[2] >>)

\* The loop over order that places the faces, entries j .. ; shape is tri
\* or poly, the local vertices of the face kind.
RECURSIVE placeFaces(_, _, _, _, _, _)
placeFaces(poses2, tree, root, face, shape, j) ==
  IF j > Len(tree.order) THEN poses2
  ELSE LET i == tree.order[j]
           pp == poses2[tree.parent[i + 1] + 1]
           placed ==
             IF face = "triangle"
             THEN attachTriangleAlongEdge(pp[1], tree.parentEdge[i + 1], tree.childEdge[i + 1], shape)
             ELSE attachPolygonAlongEdge(pp[1], tree.parentEdge[i + 1], tree.childEdge[i + 1], shape)
       IN IF i = root \/ pp = Null
          THEN placeFaces(poses2, tree, root, face, shape, j + 1)
          ELSE Do(<< placed,
                  placeFaces([poses2 EXCEPT ![i + 1] = Some(placed)], tree, root, face, shape, j + 1) >>)

\* A net pose turned about the x axis: the fault of passing the angle as the
\* first Euler angle.
netPoseAboutX(p) ==
  IF p = Null THEN FacePose(Vec(Zero, Zero, Zero), qFromEuler(0, 0, 0))
  ELSE FacePose(Vec(p[1].pos[1], p[1].pos[2], Zero),
                [qFromEuler(p[1].rot, 0, 0) EXCEPT !.tie = p[1].tie])

\* poses2.map((p) => ...): the pose of the net for the 2D pose p, which may
\* be null.
netPose(p) ==
  IF p = Null THEN FacePose(Vec(Zero, Zero, Zero), qFromEuler(0, 0, 0))
  ELSE FacePose(Vec(p[1].pos[1], p[1].pos[2], Zero),
                [qFromEuler(0, 0, p[1].rot) EXCEPT !.tie = p[1].tie])

\* The body shared by makeTreeTriangleNet and makeTreePolygonNet up to the
\* call of centerPoses: the poses of the layout with face 0 at the origin.
treeLayout(edge, folded, face, shape) ==
  LET faceCount == Len(folded)
      adj == netAdjEdges(folded, face, edge)
      root == 0
      tree == breadthFirst(searchStart(faceCount, root), adj)
      start == Array([i \in 1 .. faceCount |->
                  IF i = root + 1 THEN Some([pos |-> Vec2(Zero, Zero), rot |-> 0, tie |-> FALSE]) ELSE Null])
      poses2 == placeFaces(start, tree, root, face, shape, 1)
      poses3 == Array([i \in 1 .. faceCount |-> netPose(poses2[i])])
  IN Do(<< folded, shape, adj, tree, start, poses2, poses3 >>)

\* return centerPoses(poses2.map(...))
treeNet(edge, folded, face, shape) == centerPoses(treeLayout(edge, folded, face, shape))

makeTreeTriangleNet(edge, folded) ==
  treeNet(edge, folded, "triangle", triangleLocal2(edge))

\* The outcome of a call that may throw: the Error thrown, with its message
\* and no value, or the value returned.
Thrown(message) == [threw |-> TRUE, message |-> message, value |-> << >>]
Returned(value) == [threw |-> FALSE, message |-> "", value |-> value]

\* A builder that answers an unsupported side count with an empty net: the
\* fault of failing quietly.
makeTreePolygonNetOrNone(edge, folded, sides) ==
  IF sides = 3 THEN Returned(makeTreeTriangleNet(edge, folded))
  ELSE IF sides # 5 THEN Returned(<< >>)
  ELSE Returned(treeNet(edge, folded, "pentagon", pentagonLocal2(edge)))

makeTreePolygonNet(edge, folded, sides) ==
  IF sides = 3 THEN Returned(makeTreeTriangleNet(edge, folded))
  ELSE IF sides # 5 THEN Thrown("Unsupported polygon sides")
  ELSE Returned(treeNet(edge, folded, "pentagon", pentagonLocal2(edge)))

----------------------------------------------------------------------------
(***************************************************************************)
(* The folded solids.  Vertex and face indices run from 0.                 *)
(***************************************************************************)
poseFromTriangle3(v0, v1, v2) ==
  LET position == VScale(VAdd(VAdd(v0, v1), v2), Div(One, Num(3)))
      xAxis == Normalize(VSub(v1, v0))
      normal == Normalize(Cross(VSub(v1, v0), VSub(v2, v0)))
      yAxis == Normalize(Cross(normal, xAxis))
      m == makeBasis(xAxis, yAxis, normal)
  IN Do(<< position, xAxis, normal, yAxis, m, FacePose(position, setFromRotationMatrix(m)) >>)

poseFromPolygon3(verts) ==
  LET RECURSIVE sum(_)
      sum(i) == IF i = 0 THEN VZero ELSE VAdd(sum(i - 1), verts[i])
      position == VScale(sum(Len(verts)), Div(One, Num(Len(verts))))
      v0 == verts[1]
      v1 == verts[2]
      v2 == verts[3]
      xAxis == Normalize(VSub(v1, v0))
      n == Normalize(Cross(VSub(v1, v0), VSub(v2, v0)))
      normal == IF Lt(Dot(n, position), Zero) THEN VSub(VZero, n) ELSE n
      yAxis == Normalize(Cross(normal, xAxis))
      m == makeBasis(xAxis, yAxis, normal)
  IN Do(<< position, xAxis, normal, yAxis, m, FacePose(position, setFromRotationMatrix(m)) >>)

\* The winding turned when the normal points outward: the fault of the
\* reversed test.
orientFaceInward(vertices, face) ==
  LET a == face[1]
      b == face[2]
      c == face[3]
      v0 == vertices[a + 1]
      v1 == vertices[b + 1]
      v2 == vertices[c + 1]
      normal == Cross(VSub(v1, v0), VSub(v2, v0))
      centroid == VScale(VAdd(VAdd(v0, v1), v2), Div(One, Num(3)))
  IN Do(<< normal, centroid, IF Lt(Dot(normal, centroid), Zero) THEN face ELSE << a, c, b >> >>)

orientFaceOutward(vertices, face) ==
  LET a == face[1]
      b == face[2]
      c == face[3]
      v0 == vertices[a + 1]
      v1 == vertices[b + 1]
      v2 == vertices[c + 1]
      normal == Cross(VSub(v1, v0), VSub(v2, v0))
      centroid == VScale(VAdd(VAdd(v0, v1), v2), Div(One, Num(3)))
  IN Do(<< normal, centroid, IF Lt(Dot(normal, centroid), Zero) THEN << a, c, b >> ELSE face >>)

\* faces.map(orientFaceOutward).map(poseFromTriangle3)
triangleFacePoses(verts, faces) ==
  Array([i \in 1 .. Len(faces) |->
     LET f == orientFaceOutward(verts, faces[i])
     IN Do(<< f, poseFromTriangle3(verts[f[1] + 1], verts[f[2] + 1], verts[f[3] + 1]) >>)])

I3(x, y, z) == Vec(Num(x), Num(y), Num(z))

makeTetraFolded(edge) ==
  LET s == Div(edge, Mul(Two, Sqrt(Num(2))))
      verts == << VScale(I3(1, 1, 1), s), VScale(I3(1, 0 - 1, 0 - 1), s),
                  VScale(I3(0 - 1, 1, 0 - 1), s), VScale(I3(0 - 1, 0 - 1, 1), s) >>
      faces == << << 0, 1, 2 >>, << 0, 3, 1 >>, << 0, 2, 3 >>, << 1, 3, 2 >> >>
  IN Do(<< s, verts, triangleFacePoses(verts, faces) >>)

createTetrahedronDef(edge) ==
  LET folded == makeTetraFolded(edge)
      net == makeTreeTriangleNet(edge, folded)
  IN Do(<< folded, net,
        [id |-> "tetra", faceCount |-> 4, face |-> "triangle", edge |-> edge,
         net |-> net, folded |-> folded] >>)

makeOctaFolded(edge) ==
  LET s == Div(edge, Sqrt(Num(2)))
      verts == << VScale(I3(1, 0, 0), s), VScale(I3(0 - 1, 0, 0), s),
                  VScale(I3(0, 1, 0), s), VScale(I3(0, 0 - 1, 0), s),
                  VScale(I3(0, 0, 1), s), VScale(I3(0, 0, 0 - 1), s) >>
      faces == << << 4, 0, 2 >>, << 4, 2, 1 >>, << 4, 1, 3 >>, << 4, 3, 0 >>,
                  << 5, 2, 0 >>, << 5, 1, 2 >>, << 5, 3, 1 >>, << 5, 0, 3 >> >>
  IN Do(<< s, verts, triangleFacePoses(verts, faces) >>)

createOctahedronDef(edge) ==
  LET folded == makeOctaFolded(edge)
      net == makeTreeTriangleNet(edge, folded)
  IN Do(<< folded, net,
        [id |-> "octa", faceCount |-> 8, face |-> "triangle", edge |-> edge,
         net |-> net, folded |-> folded] >>)

\* THREE.PolyhedronGeometry with radius 1 and detail 0: the position
\* attribute holds, for every face (a, b, c) of indices, the vertices b, c, a
\* in this order, each scaled to length 1.
PolyhedronGeometry(vertices, indices) ==
  LET corner(k) ==
        LET f == (k - 1) \div 3
            slot == << 2, 3, 1 >>[((k - 1) % 3) + 1]
        IN Normalize(vertices[indices[3 * f + slot] + 1])
  IN Do(<< vertices, Array([k \in 1 .. Len(indices) |-> corner(k)]) >>)

IcosahedronGeometry ==
  LET tau == Phi
      m == Neg(One)
      nt == Neg(Phi)
      vertices ==
        << Vec(m, tau, Zero), Vec(One, tau, Zero), Vec(m, nt, Zero), Vec(One, nt, Zero),
           Vec(Zero, m, tau), Vec(Zero, One, tau), Vec(Zero, m, nt), Vec(Zero, One, nt),
           Vec(tau, Zero, m), Vec(tau, Zero, One), Vec(nt, Zero, m), Vec(nt, Zero, One) >>
      indices ==
        << 0, 11, 5,  0, 5, 1,  0, 1, 7,  0, 7, 10,  0, 10, 11,
           1, 5, 9,  5, 11, 4,  11, 10, 2,  10, 7, 6,  7, 1, 8,
           3, 9, 4,  3, 4, 2,  3, 2, 6,  3, 6, 8,  3, 8, 9,
           4, 9, 5,  2, 4, 11,  6, 2, 10,  8, 6, 7,  9, 8, 1 >>
  IN PolyhedronGeometry(vertices, indices)

DodecahedronGeometry ==
  LET tau == Phi
      r == Div(One, Phi)
      m == Neg(One)
      nt == Neg(tau)
      nr == Neg(r)
      vertices ==
        << Vec(m, m, m), Vec(m, m, One), Vec(m, One, m), Vec(m, One, One),
           Vec(One, m, m), Vec(One, m, One), Vec(One, One, m), Vec(One, One, One),
           Vec(Zero, nr, nt), Vec(Zero, nr, tau), Vec(Zero, r, nt), Vec(Zero, r, tau),
           Vec(nr, nt, Zero), Vec(nr, tau, Zero), Vec(r, nt, Zero), Vec(r, tau, Zero),
           Vec(nt, Zero, nr), Vec(tau, Zero, nr), Vec(nt, Zero, r), Vec(tau, Zero, r) >>
      indices ==
        << 3, 11, 7,  3, 7, 15,  3, 15, 13,  7, 19, 17,  7, 17, 6,  7, 6, 15,
           17, 4, 8,  17, 8, 10,  17, 10, 6,  8, 0, 16,  8, 16, 2,  8, 2, 10,
           0, 12, 1,  0, 1, 18,  0, 18, 16,  6, 10, 2,  6, 2, 13,  6, 13, 15,
           2, 16, 18,  2, 18, 3,  2, 3, 13,  18, 1, 9,  18, 9, 11,  18, 11, 3,
           4, 14, 12,  4, 12, 0,  4, 0, 8,  11, 9, 5,  11, 5, 19,  11, 19, 7,
           19, 5, 14,  19, 14, 4,  19, 4, 17,  1, 12, 14,  1, 14, 5,  1, 5, 9 >>
  IN PolyhedronGeometry(vertices, indices)

\* The first loop of makeIcosaFolded and makeDodecaFolded.  keyV rounds to
\* 1e-6: equal positions have the same key.  uniqueVerts holds the first
\* occurrence of every position; remap[i + 1] is the index in uniqueVerts
\* (from 0) of position i.
uniqueVertsOf(pos) ==
  LET IsFirst(i) == \A j \in 1 .. (i - 1) : ~VEq(pos[j], pos[i])
      idx == [i \in 1 .. Len(pos) |-> i]
      firsts == SelectSeq(Array(idx), IsFirst)
  IN Do(<< pos, firsts, Array([u \in 1 .. Len(firsts) |-> pos[firsts[u]]]) >>)

remapOf(pos, uniqueVerts) ==
  Array([i \in 1 .. Len(pos) |->
     (CHOOSE u \in 1 .. Len(uniqueVerts) : VEq(uniqueVerts[u], pos[i])) - 1])

\* The triangles without the last three: the fault of a loop that stops nine
\* positions early.
trianglesButLast(remap) ==
  Array([f \in 1 .. (Len(remap) \div 3 - 3) |->
     << remap[3 * f - 2], remap[3 * f - 1], remap[3 * f] >>])

\* for (i = 0; i < pos.count; i += 3) push [remap[i], remap[i+1], remap[i+2]]
trianglesOf(remap) ==
  Array([f \in 1 .. (Len(remap) \div 3) |->
     << remap[3 * f - 2], remap[3 * f - 1], remap[3 * f] >>])

distanceTo(a, b) == Length(VSub(a, b))

\* The scan for the smallest distance above 1e-6 between two vertices.
minEdgeOf(uniqueVerts) ==
  LET n == Len(uniqueVerts)
      dists == { distanceTo(uniqueVerts[pr[1]], uniqueVerts[pr[2]]) :
                   pr \in { q \in (1 .. n) \X (1 .. n) : q[1] < q[2] } }
      edges == { d \in dists : ~IsZero(d) }
  IN CHOOSE d \in edges : \A e \in edges : ~Lt(e, d)

rescale(uniqueVerts, edge) ==
  LET minEdge == minEdgeOf(uniqueVerts)
      scale == Div(edge, minEdge)
  IN Do(<< minEdge, scale,
        Array([i \in 1 .. Len(uniqueVerts) |-> VScale(uniqueVerts[i], scale)]) >>)

makeIcosaFolded(edge) ==
  LET pos == IcosahedronGeometry
      uniqueVerts == uniqueVertsOf(pos)
      remap == remapOf(pos, uniqueVerts)
      faces == trianglesOf(remap)
      scaled == rescale(uniqueVerts, edge)
  IN Do(<< pos, uniqueVerts, remap, faces, scaled, triangleFacePoses(scaled, faces) >>)

createIcosahedronDef(edge) ==
  LET folded == makeIcosaFolded(edge)
      net == makeTreeTriangleNet(edge, folded)
  IN Do(<< folded, net,
        [id |-> "icosa", faceCount |-> 20, face |-> "triangle", edge |-> edge,
         net |-> net, folded |-> folded] >>)

\* The outward unit normal of triangle tri of makeDodecaFolded's grouping
\* loop.
triNormal(uniqueVerts, tri) ==
  LET v0 == uniqueVerts[tri[1] + 1]
      v1 == uniqueVerts[tri[2] + 1]
      v2 == uniqueVerts[tri[3] + 1]
      n == Cross(VSub(v1, v0), VSub(v2, v0))
      centroid == VScale(VAdd(VAdd(v0, v1), v2), Div(One, Num(3)))
      outward == IF Lt(Dot(n, centroid), Zero) THEN VSub(VZero, n) ELSE n
  IN Do(<< n, centroid, outward, Normalize(outward) >>)

\* groups.values(): quantNormalKey rounds to 1e-3, so triangles with equal
\* normals share a group; the groups are in the order their keys were first
\* set.  A group is [tris, normal], normal the sum of its triangles' normals.
groupsOf(uniqueVerts, triangles) ==
  LET normals == Array([i \in 1 .. Len(triangles) |-> triNormal(uniqueVerts, triangles[i])])
      idx == Array([i \in 1 .. Len(triangles) |-> i])
      IsFirst(i) == \A j \in 1 .. (i - 1) : ~VEq(normals[j], normals[i])
      firsts == SelectSeq(idx, IsFirst)
      group(f) ==
        LET InGroup(i) == VEq(normals[i], normals[f])
            members == SelectSeq(idx, InGroup)
            RECURSIVE sum(_)
            sum(j) == IF j = 0 THEN VZero ELSE VAdd(sum(j - 1), normals[members[j]])
        IN [tris |-> Array([j \in 1 .. Len(members) |-> triangles[members[j]]]),
            normal |-> sum(Len(members))]
  IN Do(<< normals, firsts, Array([g \in 1 .. Len(firsts) |-> group(firsts[g])]) >>)

\* The Set ids of a group as an array: the vertex indices of its triangles
\* in the order they are first added.
idsOf(tris) ==
  LET all == Array([j \in 1 .. 3 * Len(tris) |-> tris[((j - 1) \div 3) + 1][((j - 1) % 3) + 1]])
      idx == Array([j \in 1 .. Len(all) |-> j])
      IsFirst(j) == \A l \in 1 .. (j - 1) : all[l] # all[j]
      firsts == SelectSeq(idx, IsFirst)
  IN Array([j \in 1 .. Len(firsts) |-> all[firsts[j]]])

\* Array.prototype.sort with the comparator angA - angB: ascending in the
\* angle, elements of equal angle in their order in idList (the sort is
\* stable).  ang[j] is the angle of idList[j] in units of 3 degrees.
sortByAngle(idList, ang) ==
  LET n == Len(idList)
      Before(i, j) == ang[i] < ang[j] \/ (ang[i] = ang[j] /\ i < j)
      rank(j) == Cardinality({ i \in 1 .. n : Before(i, j) }) + 1
  IN Array([r \in 1 .. n |-> idList[CHOOSE j \in 1 .. n : rank(j) = r]])

\* The ring of vertex indices of one face of the dodecahedron.
faceRing(uniqueVerts, g) ==
  LET idList == idsOf(g.tris)
      normal == Normalize(g.normal)
      RECURSIVE sum(_)
      sum(j) == IF j = 0 THEN VZero ELSE VAdd(sum(j - 1), uniqueVerts[idList[j] + 1])
      centroid == VScale(sum(Len(idList)), Div(One, Num(Len(idList))))
      ref == Normalize(VSub(uniqueVerts[idList[1] + 1], centroid))
      angle(j) ==
        LET va == VSub(uniqueVerts[idList[j] + 1], centroid)
        IN ToDeg3(Atan2(Dot(normal, Cross(ref, va)), Dot(ref, va)))
      ang == Array([j \in 1 .. Len(idList) |-> angle(j)])
  IN Do(<< idList, normal, centroid, ref, ang, sortByAngle(idList, ang) >>)

makeDodecaFolded(edge) ==
  LET pos == DodecahedronGeometry
      uniqueVerts == uniqueVertsOf(pos)
      remap == remapOf(pos, uniqueVerts)
      triangles == trianglesOf(remap)
      groups == groupsOf(uniqueVerts, triangles)
      faces == Array([g \in 1 .. Len(groups) |-> faceRing(uniqueVerts, groups[g])])
      scaled == rescale(uniqueVerts, edge)
      ring(f) == Array([j \in 1 .. Len(faces[f]) |-> scaled[faces[f][j] + 1]])
  IN Do(<< pos, uniqueVerts, remap, triangles, groups, faces, scaled,
        Array([f \in 1 .. Len(faces) |-> poseFromPolygon3(ring(f))]) >>)

createDodecahedronDef(edge) ==
  LET folded == makeDodecaFolded(edge)
      net == makeTreePolygonNet(edge, folded, 5).value
  IN Do(<< folded, net,
        [id |-> "dodeca", faceCount |-> 12, face |-> "pentagon", edge |-> edge,
         net |-> net, folded |-> folded] >>)

createPlatonicPolyDefs(edge) ==
  << createCubeDef(edge), createTetrahedronDef(edge), createOctahedronDef(edge),
     createIcosahedronDef(edge), createDodecahedronDef(edge) >>


----------------------------------------------------------------------------
(***************************************************************************)
(* THE APPLICATION.  usePolyDefs builds the five definitions once, for one *)
(* edge length: 1.6 in the program, polyEdge here, any length of Edges.    *)
(* The state of PolyNetSliderApp is polyId, t and autoRotate; t counts     *)
(* quarters, so the slider stops at 0, 0.25, 0.5, 0.75 and 1.  Faces       *)
(* memoizes the hinge model of the definition shown and the poses at t.    *)
(***************************************************************************)
Edges == { Rat(8, 5), One, Two }
Quarters == 0 .. 4

usePolyDefs == [e \in Edges |-> createPlatonicPolyDefs(e)]
AllDefs == { usePolyDefs[e][i] : e \in Edges, i \in 1 .. 5 }
\* useMemo(() => buildHingeModel(def), [def])
hingeModelOf == [d \in AllDefs |-> buildHingeModel(d)]
\* useMemo(() => hingePoses(def, hingeModel, t), [def, hingeModel, t])
posesOf == [d \in AllDefs, q \in Quarters |-> hingePoses(d, hingeModelOf[d], q)]

VARIABLES polyEdge, polyId, t, autoRotate
vars == << polyEdge, polyId, t, autoRotate >>

defs == usePolyDefs[polyEdge]
\* defs.find((d) => d.id === polyId) ?? defs[0]
find(ds, id) ==
  LET hits == { i \in 1 .. Len(ds) : ds[i].id = id }
  IN IF hits = { } THEN ds[1] ELSE ds[CHOOSE i \in hits : \A j \in hits : i <= j]
shown == find(defs, polyId)
hingeModel == hingeModelOf[shown]
poses == posesOf[shown, t]

Init ==
  /\ polyEdge \in Edges
  /\ polyId = "cube"
  /\ t = 0
  /\ autoRotate = TRUE

\* A selection that also lays the solid flat: the fault of a setT(0) in the
\* handler of the Select.
SelectAndUnfold ==
  \E i \in 1 .. Len(Solids) :
    /\ polyId' = Solids[i]
    /\ t' = 0
    /\ UNCHANGED << polyEdge, autoRotate >>

\* Select onValueChange: setPolyId(v), one SelectItem for the id of each
\* definition
SelectValueChange ==
  \E i \in 1 .. Len(Solids) :
    /\ polyId' = Solids[i]
    /\ UNCHANGED << polyEdge, t, autoRotate >>

\* Slider onValueChange, min 0, max 1: setT(v[0] ?? 0)
SliderValueChange ==
  \E q \in Quarters :
    /\ t' = q
    /\ UNCHANGED << polyEdge, polyId, autoRotate >>

\* the net button: setT(0)
NetButton ==
  /\ t' = 0
  /\ UNCHANGED << polyEdge, polyId, autoRotate >>

\* the solid button: setT(1)
SolidButton ==
  /\ t' = 4
  /\ UNCHANGED << polyEdge, polyId, autoRotate >>

\* the reset button: setT(0)
ResetButton ==
  /\ t' = 0
  /\ UNCHANGED << polyEdge, polyId, autoRotate >>

\* Switch onCheckedChange: setAutoRotate(checked), the checkbox reports its
\* new state
SwitchCheckedChange ==
  /\ autoRotate' = ~autoRotate
  /\ UNCHANGED << polyEdge, polyId, t >>

Next ==
  \/ SelectValueChange
  \/ SliderValueChange
  \/ NetButton
  \/ SolidButton
  \/ ResetButton
  \/ SwitchCheckedChange

Spec == Init /\ [][Next]_vars


----------------------------------------------------------------------------
(***************************************************************************)
(* PROPERTIES.  Two poses are the same placement when they have the same   *)
(* position and the same rotation, in the same frame; they have the same   *)
(* components when, moreover, their quaternions have the same sign and no  *)
(* rounding decides that sign.                                             *)
(***************************************************************************)
SamePlacement(p, q) ==
  /\ p.root = q.root
  /\ VEq(p.position, q.position)
  /\ MEq(p.quaternion.R, q.quaternion.R)
SameComponents(p, q) ==
  /\ SamePlacement(p, q)
  /\ ~p.quaternion.tie /\ ~q.quaternion.tie
  /\ p.quaternion.sg # 0 /\ p.quaternion.sg = q.quaternion.sg
\* The quaternions of p and q are opposite whatever the rounding.
Negated(p, q) ==
  /\ ~p.quaternion.tie /\ ~q.quaternion.tie
  /\ p.quaternion.sg # 0 /\ p.quaternion.sg = 0 - q.quaternion.sg
SameMatrix(a, b) == a.root = b.root /\ MEq(a.R, b.R) /\ VEq(a.p, b.p)
Faces == 1 .. shown.faceCount
Hinged == { i \in Faces : hingeModel.hinges[i] # Null }

\* C1 (as amended): at t = 0 hingePoses returns one pose for each face, and
\* the pose of every face, the root and the hinged faces alike, has the
\* position and the rotation of the pose of that face in def.net.
C1_NetPlacementAtZero ==
  t = 0 =>
    /\ Len(poses) = shown.faceCount
    /\ \A i \in Faces : SamePlacement(poses[i], shown.net[i])
\* A hinged face of the icosahedron at t = 0, placed as in the net.
C1_Witness ==
  /\ t = 0 /\ polyId = "icosa"
  /\ Cardinality(Hinged) = 19
  /\ \A i \in Hinged : SamePlacement(poses[i], shown.net[i])
\* C1 as stated: at t = 0 the pose of every face equals its pose in def.net
\* component by component, the four components of the quaternion included
\* (a sign that rounding decides counts as equal).
C1_NetComponentsAtZero ==
  t = 0 =>
    \A i \in Faces :
      SamePlacement(poses[i], shown.net[i]) /\ ~Negated(poses[i], shown.net[i])

\* The relative transform of the hinge of face i, folded all the way, and
\* the transform from the parent to face i in def.folded.
FoldedHinge(i) ==
  LET h == hingeModel.hinges[i][1]
  IN multiply(rotationAroundAxisLine(h.axis, h.point, AngleTimes(h.angle, 4)), h.relNet)
relFoldOf(i) ==
  LET h == hingeModel.hinges[i][1]
  IN multiply(invert(poseToMatrix(shown.folded[h.parent + 1])), poseToMatrix(shown.folded[i]))

vertsLocalOf == [d \in AllDefs |-> localVerts3(d.face, d.edge)]
vertsLocal == vertsLocalOf[shown]
\* The ends of local edge e of the face kind shown, under a pose.
EdgeUnder(pose, e) ==
  LET world(x) == VAdd(applyQuaternion(x, pose.quaternion), pose.position)
  IN << world(vertsLocal[e + 1]), world(vertsLocal[((e + 1) % Len(vertsLocal)) + 1]) >>
\* The local edge of the parent that the hinge of face i turns about: the
\* one that starts at the pivot.
HingeEdge(i) ==
  CHOOSE e \in 0 .. (Len(vertsLocal) - 1) :
    VEq(vertsLocal[e + 1], hingeModel.hinges[i][1].point)
\* Some edge of face i has the ends of the hinge edge of its parent.
SharedEdgeCoincides(i) ==
  LET pp == poses[hingeModel.hinges[i][1].parent + 1]
      pe == EdgeUnder(pp, HingeEdge(i))
  IN /\ pp.root = poses[i].root
     /\ \E c \in 0 .. (Len(vertsLocal) - 1) :
          LET ce == EdgeUnder(poses[i], c)
          IN \/ VEq(pe[1], ce[1]) /\ VEq(pe[2], ce[2])
             \/ VEq(pe[1], ce[2]) /\ VEq(pe[2], ce[1])

\* C3: for every polyhedron and every hinge (parent p, child i), at each t
\* in 0, 0.25, 0.5, 0.75, 1 the two ends of the shared edge placed by the
\* pose of p are the two ends of an edge of face i placed by the pose of i.
C3_SharedEdgeCoincides == \A i \in Hinged : SharedEdgeCoincides(i)
\* The icosahedron half folded: 19 hinged faces, each turned out of the
\* plane of the net and still on the edge of its parent.
C3_Witness ==
  /\ t = 2 /\ polyId = "icosa"
  /\ Cardinality(Hinged) = 19
  /\ \A i \in Hinged :
       /\ ~MEq(poses[i].quaternion.R, shown.net[i].quaternion.R)
       /\ SharedEdgeCoincides(i)

\* netAdjEdges(def.folded, def.face, def.edge), as buildHingeModel calls it
foldedAdjOf == [d \in AllDefs |-> netAdjEdges(d.folded, d.face, d.edge)]
foldedAdj == foldedAdjOf[shown]
\* The records of adj that have edge e of face f at one of their two ends.
RecordsAt(adj, f, e) ==
  { j \in 1 .. Len(adj) :
      \/ adj[j].a = f /\ adj[j].edgeA = e
      \/ adj[j].b = f /\ adj[j].edgeB = e }
EulerEdges ==
  [cube |-> 12, tetra |-> 6, octa |-> 12, icosa |-> 30, dodeca |-> 30]

\* C4: for every polyhedron the adjacency of the folded poses has the number
\* of edges of the solid, tetra 6, cube 12, octa 12, dodeca 30, icosa 30,
\* and every edge of every face is in exactly one record, whose two faces
\* are different: no edge is dropped and none is counted twice.
C4_FoldedEdgeCount ==
  /\ Len(foldedAdj) = EulerEdges[polyId]
  /\ \A j \in 1 .. Len(foldedAdj) : foldedAdj[j].a # foldedAdj[j].b
  /\ \A f \in 0 .. (shown.faceCount - 1) :
       \A e \in 0 .. (Len(vertsLocal) - 1) :
         Cardinality(RecordsAt(foldedAdj, f, e)) = 1
\* The 30 edges of the dodecahedron.
C4_Witness == polyId = "dodeca" /\ Len(foldedAdj) = 30

\* The number of hinges to follow from face i (numbered from 0) to the root,
\* or -1 when n hinges do not lead there.
RECURSIVE StepsToRoot(_, _)
StepsToRoot(i, n) ==
  IF i = hingeModel.root THEN 0
  ELSE IF n = 0 \/ hingeModel.hinges[i + 1] = Null THEN 0 - 1
  ELSE LET up == StepsToRoot(hingeModel.hinges[i + 1][1].parent, n - 1)
       IN IF up < 0 THEN up ELSE up + 1

\* C5: for every polyhedron the hinge model is a spanning tree over all the
\* faces: the root is face 0 and has no hinge, every other face has a hinge
\* (faceCount - 1 hinges in all), and the hinge parents lead from any face
\* to the root in fewer than faceCount steps, so without a cycle.
C5_SpanningTree ==
  /\ hingeModel.root = 0
  /\ Len(hingeModel.hinges) = shown.faceCount
  /\ hingeModel.hinges[hingeModel.root + 1] = Null
  /\ Hinged = Faces \ { hingeModel.root + 1 }
  /\ Cardinality(Hinged) = shown.faceCount - 1
  /\ \A i \in Hinged : hingeModel.hinges[i][1].parent \in 0 .. (shown.faceCount - 1)
  /\ \A i \in 0 .. (shown.faceCount - 1) : StepsToRoot(i, shown.faceCount - 1) >= 0
\* The tree of the icosahedron: 19 hinges, and a face that is five hinges
\* from the root.
C5_Witness ==
  /\ polyId = "icosa"
  /\ Cardinality(Hinged) = 19
  /\ \E i \in 0 .. 19 : StepsToRoot(i, 19) >= 5

ZAxis == Vec(Zero, Zero, One)
Planar(pose) ==
  /\ IsZero(pose.position[3])
  /\ VEq(MApply(pose.quaternion.R, ZAxis), ZAxis)

\* C6: for every polyhedron the net is planar: every pose of def.net has
\* position z = 0 and a rotation about the z axis only, which leaves local
\* +Z at +Z.
C6_NetPlanar == \A i \in 1 .. Len(shown.net) : Planar(shown.net[i])
\* The net of the dodecahedron: twelve planar poses, one of them away from
\* the origin and turned in the plane.
C6_Witness ==
  /\ polyId = "dodeca"
  /\ Len(shown.net) = 12
  /\ \E i \in 1 .. 12 :
       /\ Planar(shown.net[i])
       /\ ~IsZero(shown.net[i].position[1])
       /\ ~MEq(shown.net[i].quaternion.R, MIdentity)

FaceCounts == [cube |-> 6, tetra |-> 4, octa |-> 8, icosa |-> 20, dodeca |-> 12]
FaceKinds ==
  [cube |-> "square", tetra |-> "triangle", octa |-> "triangle",
   icosa |-> "triangle", dodeca |-> "pentagon"]

AxisDirections ==
  { Vec(One, Zero, Zero), Vec(Neg(One), Zero, Zero),
    Vec(Zero, One, Zero), Vec(Zero, Neg(One), Zero),
    Vec(Zero, Zero, One), Vec(Zero, Zero, Neg(One)) }

\* C8: the six folded face centres of the cube lie at distance edge / 2 from
\* the origin, one on each of the six signed axis directions, no two on the
\* same one.
C8_CubeFoldedCentres ==
  polyId = "cube" =>
    LET half == Div(shown.edge, Two)
        at(i) == shown.folded[i].position
    IN /\ Len(shown.folded) = 6
       /\ \A i \in 1 .. 6 : NumEq(Dot(at(i), at(i)), Mul(half, half))
       /\ \A i \in 1 .. 6 : \E d \in AxisDirections : VEq(at(i), VScale(d, half))
       /\ \A d \in AxisDirections : \E i \in 1 .. 6 : VEq(at(i), VScale(d, half))
       /\ \A i, j \in 1 .. 6 : i # j => ~VEq(at(i), at(j))
\* The cube of edge 1.6: face 0 at (0, 0, 0.8) and face 3 opposite to it.
C8_Witness ==
  /\ polyId = "cube"
  /\ polyEdge = Rat(8, 5)
  /\ VEq(shown.folded[1].position, Vec(Zero, Zero, Rat(4, 5)))
  /\ VEq(shown.folded[4].position, Vec(Zero, Zero, Neg(Rat(4, 5))))

netAdjOf == [d \in AllDefs |-> netAdjEdges(d.net, d.face, d.edge)]
netAdj == netAdjOf[shown]
Pairs(adj) == { << adj[j].a, adj[j].b >> : j \in 1 .. Len(adj) }

\* C9: the net of the cube is six squares with the identity rotation in a
\* cross: faces 1, 0, 2, 3 in a row along x at spacing edge, face 4 above
\* and face 5 below face 0, neighbours sharing a full edge, and the mean of
\* the six positions is the origin.
C9_CubeNetCross ==
  polyId = "cube" =>
    LET s == shown.edge
        at(i) == shown.net[i + 1].position
        from0(i) == VSub(at(i), at(0))
        RECURSIVE sum(_)
        sum(i) == IF i = 0 THEN VZero ELSE VAdd(sum(i - 1), shown.net[i].position)
    IN /\ Len(shown.net) = 6
       /\ \A i \in 1 .. 6 : MEq(shown.net[i].quaternion.R, MIdentity)
       /\ VEq(from0(1), Vec(Neg(s), Zero, Zero))
       /\ VEq(from0(2), Vec(s, Zero, Zero))
       /\ VEq(from0(3), Vec(Mul(Two, s), Zero, Zero))
       /\ VEq(from0(4), Vec(Zero, s, Zero))
       /\ VEq(from0(5), Vec(Zero, Neg(s), Zero))
       /\ Pairs(netAdj) = { << 0, 1 >>, << 0, 2 >>, << 2, 3 >>, << 0, 4 >>, << 0, 5 >> }
       /\ VEq(sum(6), VZero)
\* The cube of edge 1.6: face 0 is at (-1.6 / 3, 0, 0) once the net is
\* centered, and five pairs of squares share an edge.
C9_Witness ==
  /\ polyId = "cube"
  /\ polyEdge = Rat(8, 5)
  /\ VEq(shown.net[1].position, Vec(Neg(Rat(8, 15)), Zero, Zero))
  /\ Len(netAdj) = 5

\* The calls of makeTreePolygonNet on the folded poses of a definition: with
\* the side count of its faces, and with every side count that is neither
\* 3 nor 5.
Sides == 3 .. 6
SidesOf == [triangle |-> 3, square |-> 4, pentagon |-> 5]
NetCalls == { c \in AllDefs \X Sides : c[2] \notin { 3, 5 } \/ c[2] = SidesOf[c[1].face] }
polygonNetOf == [c \in NetCalls |-> makeTreePolygonNet(c[1].edge, c[1].folded, c[2])]
IsNet(r, n) == ~r.threw /\ Len(r.value) = n /\ \A i \in 1 .. n : Planar(r.value[i])

\* C11: makeTreePolygonNet throws, and returns no net, when sides is neither
\* 3 nor 5 (4 included); with 3 it returns the net of makeTreeTriangleNet,
\* with 5 the net of the pentagons.
C11_UnsupportedSidesThrow ==
  /\ \A n \in Sides \ { 3, 5 } :
       /\ polygonNetOf[<< shown, n >>].threw
       /\ polygonNetOf[<< shown, n >>].message = "Unsupported polygon sides"
       /\ polygonNetOf[<< shown, n >>].value = << >>
  /\ shown.face = "triangle" =>
       /\ IsNet(polygonNetOf[<< shown, 3 >>], shown.faceCount)
       /\ polygonNetOf[<< shown, 3 >>].value = shown.net
  /\ shown.face = "pentagon" =>
       /\ IsNet(polygonNetOf[<< shown, 5 >>], shown.faceCount)
       /\ polygonNetOf[<< shown, 5 >>].value = shown.net
\* The squares of the cube are handed over with sides = 4, and the call
\* throws.
C11_Witness ==
  /\ polyId = "cube"
  /\ SidesOf[shown.face] = 4
  /\ polygonNetOf[<< shown, 4 >>].threw

\* The layouts handed to netAdjEdges: the net and the folded poses of a
\* definition, where an edge key has one or two contributors, and the net
\* with its last face laid down twice, where the edge that face shares with
\* its neighbour has three.
Stacked(net) == Append(net, net[Len(net)])
Layouts == 1 .. 3
LayoutOf(d, k) == CASE k = 1 -> d.net [] k = 2 -> d.folded [] k = 3 -> Stacked(d.net)
pushesOf == [d \in AllDefs, k \in Layouts |-> edgePushes(LayoutOf(d, k), vertsLocalOf[d])]
adjOf == [d \in AllDefs, k \in Layouts |-> netAdjEdges(LayoutOf(d, k), d.face, d.edge)]
Contributors(pushes, key) == { j \in 1 .. Len(pushes) : pushes[j].key = key }
Multiplicity(pushes, j) == Cardinality(Contributors(pushes, pushes[j].key))
PushOf(pushes, f, e) == CHOOSE j \in 1 .. Len(pushes) : pushes[j].fi = f /\ pushes[j].edgeIndex = e
\* Record r joins pushes i and j, the first and the second under their key.
Joins(pushes, r, i, j) ==
  /\ r.a = pushes[i].fi /\ r.edgeA = pushes[i].edgeIndex
  /\ r.b = pushes[j].fi /\ r.edgeB = pushes[j].edgeIndex
ExactlyThePairs(pushes, adj) ==
  /\ \A i, j \in 1 .. Len(pushes) :
       (i < j /\ pushes[i].key = pushes[j].key /\ Multiplicity(pushes, i) = 2) =>
         Cardinality({ x \in 1 .. Len(adj) : Joins(pushes, adj[x], i, j) }) = 1
  /\ \A x \in 1 .. Len(adj) :
       LET i == PushOf(pushes, adj[x].a, adj[x].edgeA)
           j == PushOf(pushes, adj[x].b, adj[x].edgeB)
       IN i < j /\ pushes[i].key = pushes[j].key /\ Multiplicity(pushes, i) = 2
  /\ 2 * Len(adj) = Cardinality({ j \in 1 .. Len(pushes) : Multiplicity(pushes, j) = 2 })

\* C12: netAdjEdges emits one record for every edge key pushed by exactly
\* two (face, edge index) pairs, with those two faces and edge indices, and
\* no record for a key pushed by one pair or by three or more.
C12_ExactlyTwoContributors ==
  \A k \in Layouts : ExactlyThePairs(pushesOf[shown, k], adjOf[shown, k])
\* The net of the cube with its last square laid down twice: there are keys
\* with one, with two and with three contributors.
C12_Witness ==
  /\ polyId = "cube"
  /\ \A m \in 1 .. 3 :
       \E j \in 1 .. Len(pushesOf[shown, 3]) : Multiplicity(pushesOf[shown, 3], j) = m
  /\ Len(adjOf[shown, 3]) = 7

\* A hinge model that lost the hinge of one face: the first face of order
\* that is the parent of another one, or the last face of order when the
\* root is the only parent.  That face has no hinge, and the world matrix of
\* every face under it stays unresolved.
ParentsIn(model) ==
  { model.hinges[i][1].parent : i \in { x \in 1 .. Len(model.hinges) : model.hinges[x] # Null } }
CutFace(model) ==
  LET n == Len(model.order)
      inner == { j \in 2 .. n : model.order[j] \in ParentsIn(model) }
  IN IF inner = { } THEN model.order[n]
     ELSE model.order[CHOOSE j \in inner : \A l \in inner : j <= l]
Severed(model) == [model EXCEPT !.hinges[CutFace(model) + 1] = Null]
severedModelOf == [d \in AllDefs |-> Severed(hingeModelOf[d])]
severedPosesOf == [d \in AllDefs, q \in Quarters |-> hingePoses(d, severedModelOf[d], q)]

\* worldM[i] is set by hingePoses: face i is the root, or it has a hinge
\* and worldM of the parent is set, n hinges up at most.
RECURSIVE Resolved(_, _, _)
Resolved(model, i, n) ==
  \/ i = model.root
  \/ /\ n > 0
     /\ model.hinges[i + 1] # Null
     /\ Resolved(model, model.hinges[i + 1][1].parent, n - 1)

\* C13: at any t, hingePoses returns faceCount poses, and a face other than
\* the root whose hinge is missing, or whose parent has no world matrix, is
\* returned with exactly its net pose def.net[i].
C13_FallbackToNetPose ==
  LET model == severedModelOf[shown]
      result == severedPosesOf[shown, t]
  IN /\ Len(result) = shown.faceCount
     /\ Len(poses) = shown.faceCount
     /\ \A i \in 0 .. (shown.faceCount - 1) :
          (i # model.root /\ ~Resolved(model, i, shown.faceCount)) =>
            result[i + 1] = shown.net[i + 1]
\* The cube half folded with the hinge of a face missing: that face and the
\* face hinged on it are returned as in the net, another face is folded.
C13_Witness ==
  LET model == severedModelOf[shown]
      result == severedPosesOf[shown, t]
      cut == CutFace(hingeModelOf[shown])
  IN /\ polyId = "cube" /\ t = 2
     /\ model.hinges[cut + 1] = Null
     /\ result[cut + 1] = shown.net[cut + 1]
     /\ \E i \in 0 .. 5 :
          /\ model.hinges[i + 1] # Null
          /\ model.hinges[i + 1][1].parent = cut
          /\ result[i + 1] = shown.net[i + 1]
     /\ \E i \in 0 .. 5 :
          /\ Resolved(model, i, 6)
          /\ ~MEq(result[i + 1].quaternion.R, shown.net[i + 1].quaternion.R)

\* The body centre of the folded solid: the mean of its face centroids.
BodyCentre(folded) ==
  LET RECURSIVE sum(_)
      sum(i) == IF i = 0 THEN VZero ELSE VAdd(sum(i - 1), folded[i].position)
  IN VScale(sum(Len(folded)), Div(One, Num(Len(folded))))
bodyCentreOf == [d \in AllDefs |-> BodyCentre(d.folded)]
Outward(pose, centre) ==
  Gt(Dot(MApply(pose.quaternion.R, ZAxis), VSub(pose.position, centre)), Zero)
\* The corners of the folded faces: the ends of the edges pushed by
\* netAdjEdges for the folded poses.
Corners(pushes) ==
  { pushes[j].key[1] : j \in 1 .. Len(pushes) } \cup { pushes[j].key[2] : j \in 1 .. Len(pushes) }
VertexCounts == [cube |-> 8, tetra |-> 4, octa |-> 6, icosa |-> 12, dodeca |-> 20]

\* C15: every folded pose turns the local +Z axis of its face to the outward
\* normal (its dot product with the vector from the body centre to the face
\* centroid is positive) and lays the local vertices on the vertices of the
\* solid: the corners of all the faces are the V vertices of the solid, and
\* every edge of every face is the edge of exactly one other face.
C15_FoldedOutwardAndClosed ==
  LET pushes == pushesOf[shown, 2] IN
  /\ \A i \in Faces : Outward(shown.folded[i], bodyCentreOf[shown])
  /\ Len(pushes) = shown.faceCount * Len(vertsLocal)
  /\ \A j \in 1 .. Len(pushes) : Multiplicity(pushes, j) = 2
  /\ \A x \in 1 .. Len(foldedAdj) : foldedAdj[x].a # foldedAdj[x].b
  /\ Cardinality(Corners(pushes)) = VertexCounts[shown.id]
\* The icosahedron: 20 faces turned outward, none along +Z only, whose 60
\* edges meet in pairs at 12 corners.
C15_Witness ==
  /\ polyId = "icosa"
  /\ Len(pushesOf[shown, 2]) = 60
  /\ Cardinality(Corners(pushesOf[shown, 2])) = 12
  /\ \A i \in Faces : Outward(shown.folded[i], bodyCentreOf[shown])
  /\ \E i \in Faces : ~VEq(MApply(shown.folded[i].quaternion.R, ZAxis), ZAxis)

\* A cube laid out with face 5 above face 4 instead of below face 0.  Faces
\* 4 and 5 then share an edge in the net, while in the solid they are
\* opposite: an adjacency of the layout only.
StrayCube(d) ==
  [d EXCEPT !.net[6] = FacePose(VAdd(d.net[5].position, Vec(Zero, d.edge, Zero)), d.net[6].quaternion)]
strayDefOf == [e \in Edges |-> StrayCube(usePolyDefs[e][1])]
strayNetAdjOf == [e \in Edges |-> netAdjEdges(strayDefOf[e].net, strayDefOf[e].face, e)]
strayFoldedAdjOf == [e \in Edges |-> netAdjEdges(strayDefOf[e].folded, strayDefOf[e].face, e)]
strayModelOf == [e \in Edges |-> buildHingeModel(strayDefOf[e])]
FacePairs(adj) == { { adj[j].a, adj[j].b } : j \in 1 .. Len(adj) }
HingePairs(model) ==
  { { model.hinges[i][1].parent, i - 1 } :
      i \in { x \in 1 .. Len(model.hinges) : model.hinges[x] # Null } }

\* C16: every hinge of buildHingeModel joins two faces that share an edge
\* both in the net and in the folded solid; a pair that shares an edge in
\* the net only, or in the solid only, is the pair of no hinge.
C16_HingesAdjacentInBoth ==
  /\ HingePairs(hingeModel) \subseteq FacePairs(netAdj) \cap FacePairs(foldedAdj)
  /\ HingePairs(strayModelOf[polyEdge]) \subseteq
       FacePairs(strayNetAdjOf[polyEdge]) \cap FacePairs(strayFoldedAdjOf[polyEdge])
\* The dodecahedron with its 11 hinges, 19 pairs of faces adjacent in the
\* solid only; and the cube laid out with faces 4 and 5 adjacent in the net
\* only, where face 5 gets no hinge.
C16_Witness ==
  /\ polyId = "dodeca"
  /\ Cardinality(HingePairs(hingeModel)) = 11
  /\ Cardinality(FacePairs(foldedAdj) \ FacePairs(netAdj)) = 19
  /\ { 4, 5 } \in FacePairs(strayNetAdjOf[polyEdge]) \ FacePairs(strayFoldedAdjOf[polyEdge])
  /\ strayModelOf[polyEdge].hinges[6] = Null
  /\ Cardinality(HingePairs(strayModelOf[polyEdge])) = 4

\* The place of face f in order, 0 when it is not there.
PlaceIn(order, f) ==
  LET at == { j \in 1 .. Len(order) : order[j] = f }
  IN IF at = { } THEN 0 ELSE CHOOSE j \in at : \A l \in at : j <= l
RootFirst(model) ==
  /\ Len(model.order) >= 1
  /\ model.order[1] = model.root
  /\ \A i, j \in 1 .. Len(model.order) : i # j => model.order[i] # model.order[j]
  /\ \A i \in 1 .. Len(model.hinges) :
       model.hinges[i] # Null =>
         /\ PlaceIn(model.order, i - 1) > 0
         /\ PlaceIn(model.order, model.hinges[i][1].parent) > 0
         /\ PlaceIn(model.order, model.hinges[i][1].parent) < PlaceIn(model.order, i - 1)

\* C17: in the hinge model of buildHingeModel, order begins with the root
\* and lists every hinged face once, after its hinge parent; so hingePoses,
\* walking order, finds the world matrix of the parent set and never takes
\* the skip for a missing parent: no hinged face comes back with the net
\* pose it falls back to.
C17_ParentBeforeChild ==
  /\ RootFirst(hingeModel)
  /\ RootFirst(strayModelOf[polyEdge])
  /\ \A i \in Hinged : Resolved(hingeModel, i - 1, shown.faceCount)
  /\ t # 0 => \A i \in Hinged : ~SamePlacement(poses[i], shown.net[i])
\* The icosahedron half folded: order lists the 20 faces from the root on,
\* and a face hinged on a face other than the root comes after it.
C17_Witness ==
  /\ polyId = "icosa" /\ t = 2
  /\ Len(hingeModel.order) = 20
  /\ hingeModel.order[1] = hingeModel.root
  /\ \E i \in Hinged :
       /\ hingeModel.hinges[i][1].parent # hingeModel.root
       /\ PlaceIn(hingeModel.order, hingeModel.hinges[i][1].parent) < PlaceIn(hingeModel.order, i - 1)

\* A face shape whose points lie on one line, attached to itself along its
\* edge 0 from the pose of a root face: the reference point of the parent
\* and that of either candidate are on the line of the shared edge, and
\* every side test is exactly zero.
FlatShape(edge) == << Vec2(Zero, Zero), Vec2(edge, Zero), Vec2(Mul(Two, edge), Zero) >>
RootPose2 == [pos |-> Vec2(Zero, Zero), rot |-> 0, tie |-> FALSE]
flatTriangleOf == [e \in Edges |-> attachTriangleAlongEdge(RootPose2, 0, 0, FlatShape(e))]
flatPolygonOf == [e \in Edges |-> attachPolygonAlongEdge(RootPose2, 0, 0, FlatShape(e))]
\* candidates[0] of both calls: solve(e0, e1), from the start of the edge of
\* the child to the start e0 of the edge of the parent.
flatFirstOf ==
  [e \in Edges |-> solve(FlatShape(e)[1], FlatShape(e)[2], FlatShape(e)[1], FlatShape(e)[2])]
\* The side test of candidates[0] for the reference point ref of the child.
FirstScore(e, ref) ==
  LET e0 == FlatShape(e)[1]
      v01 == Vec2(Sub(FlatShape(e)[2][1], e0[1]), Sub(FlatShape(e)[2][2], e0[2]))
      world == applyPose2(flatFirstOf[e], ref)
  IN cross2(v01, Vec2(Sub(world[1], e0[1]), Sub(world[2], e0[2])))
SamePose2(p, q) ==
  /\ NumEq(p.pos[1], q.pos[1]) /\ NumEq(p.pos[2], q.pos[2])
  /\ p.rot = q.rot

\* candidates[1] of both calls: solve(e1, e0), the half turn that lays the
\* start of the edge of the child on e1.
flatSecondOf ==
  [e \in Edges |-> solve(FlatShape(e)[2], FlatShape(e)[1], FlatShape(e)[1], FlatShape(e)[2])]

\* C18 (as amended): when the side test of the first candidate is exactly
\* zero, attachTriangleAlongEdge and attachPolygonAlongEdge return the
\* second candidate (start of the child edge on e1, end on e0): the first
\* one is returned only when its side test is strictly negative.
C18_TieReturnsSecondCandidate ==
  /\ IsZero(FirstScore(polyEdge, FlatShape(polyEdge)[3])) =>
       SamePose2(flatTriangleOf[polyEdge], flatSecondOf[polyEdge])
  /\ IsZero(FirstScore(polyEdge, Centroid2(FlatShape(polyEdge)))) =>
       SamePose2(flatPolygonOf[polyEdge], flatSecondOf[polyEdge])
\* C18 as claimed: when the side test of the first candidate is exactly
\* zero, the first candidate (start of the child edge on e0, end on e1) is
\* the pose that attachTriangleAlongEdge and attachPolygonAlongEdge return.
C18_TieReturnsFirstCandidate ==
  /\ IsZero(FirstScore(polyEdge, FlatShape(polyEdge)[3])) =>
       SamePose2(flatTriangleOf[polyEdge], flatFirstOf[polyEdge])
  /\ IsZero(FirstScore(polyEdge, Centroid2(FlatShape(polyEdge)))) =>
       SamePose2(flatPolygonOf[polyEdge], flatFirstOf[polyEdge])
\* The tie on the flat shape of edge 1.6: both side tests are zero, the two
\* candidates differ, the second one being the half turn at (1.6, 0), and
\* the triangle is attached by it.
C18_Witness ==
  LET second == [pos |-> Vec2(Rat(8, 5), Zero), rot |-> Pi]
  IN /\ polyEdge = Rat(8, 5)
     /\ IsZero(FirstScore(polyEdge, FlatShape(polyEdge)[3]))
     /\ IsZero(FirstScore(polyEdge, Centroid2(FlatShape(polyEdge))))
     /\ SamePose2(flatSecondOf[polyEdge], second)
     /\ ~SamePose2(flatFirstOf[polyEdge], second)
     /\ flatTriangleOf[polyEdge].rot = Pi

\* The search of makeTreeTriangleNet and makeTreePolygonNet over the folded
\* adjacency: parent, parentEdge and childEdge of every face.
netTreeOf == [d \in AllDefs |-> breadthFirst(searchStart(Len(d.folded), 0), foldedAdjOf[d])]
netTree == netTreeOf[shown]
\* The reference point of a face under a pose, for its edge e: the vertex
\* opposite to e for a triangle, the centroid of the vertices otherwise.
RefPoint(pose, e) ==
  LET n == Len(vertsLocal)
      world(x) == VAdd(applyQuaternion(x, pose.quaternion), pose.position)
      RECURSIVE sum(_)
      sum(k) == IF k = 0 THEN VZero ELSE VAdd(sum(k - 1), world(vertsLocal[k]))
  IN IF n = 3 THEN world(vertsLocal[((e + 2) % 3) + 1])
     ELSE VScale(sum(n), Div(One, Num(n)))
\* The side of point r with respect to the edge from a to b, in the plane
\* of the net.
SideOf(a, b, r) ==
  Sub(Mul(Sub(b[1], a[1]), Sub(r[2], a[2])), Mul(Sub(b[2], a[2]), Sub(r[1], a[1])))
PlacedAcross(i) ==
  LET par == netTree.parent[i + 1]
      pe == EdgeUnder(shown.net[par + 1], netTree.parentEdge[i + 1])
      ce == EdgeUnder(shown.net[i + 1], netTree.childEdge[i + 1])
      parentSide == SideOf(pe[1], pe[2], RefPoint(shown.net[par + 1], netTree.parentEdge[i + 1]))
      childSide == SideOf(pe[1], pe[2], RefPoint(shown.net[i + 1], netTree.childEdge[i + 1]))
  IN /\ par # 0 - 1
     /\ \/ VEq(pe[1], ce[1]) /\ VEq(pe[2], ce[2])
        \/ VEq(pe[1], ce[2]) /\ VEq(pe[2], ce[1])
     /\ ~IsZero(parentSide) /\ ~IsZero(childSide)
     /\ Lt(Mul(parentSide, childSide), Zero)

\* C19: every face other than face 0 that the net layout places has its
\* shared edge on the shared edge of its parent, and its reference point
\* (opposite vertex of a triangle, centroid of a pentagon) strictly on the
\* other side of that edge than the reference point of the parent.
C19_ChildAcrossSharedEdge ==
  shown.face # "square" => \A i \in 1 .. (shown.faceCount - 1) : PlacedAcross(i)
\* The net of the dodecahedron: eleven pentagons placed, one of them on a
\* pentagon other than face 0.
C19_Witness ==
  /\ polyId = "dodeca"
  /\ \A i \in 1 .. 11 : PlacedAcross(i)
  /\ \E i \in 1 .. 11 : netTree.parent[i + 1] # 0

\* The layout of the net of a definition before centerPoses: the poses of
\* poses2.map(...) for a net of triangles or pentagons, const net for the
\* cube.
layoutOf ==
  [d \in AllDefs |->
     CASE d.face = "triangle" -> treeLayout(d.edge, d.folded, "triangle", triangleLocal2(d.edge))
       [] d.face = "pentagon" -> treeLayout(d.edge, d.folded, "pentagon", pentagonLocal2(d.edge))
       [] d.face = "square" -> cubeNet(d.edge)]
MeanPosition(facePoses) ==
  LET RECURSIVE sum(_)
      sum(i) == IF i = 0 THEN VZero ELSE VAdd(sum(i - 1), facePoses[i].position)
  IN VScale(sum(Len(facePoses)), Div(One, Num(Len(facePoses))))

\* C20: the net of makeTreeTriangleNet and makeTreePolygonNet has one pose
\* for each folded pose, in the same order (face i is attached to the face
\* and along the edges the folded adjacency gives for it); face 0 has zero
\* rotation; the mean of the positions is the origin; and the net is the
\* layout with face 0 at the origin moved by one translation: the same
\* rotations, the same positions relative to face 0.
C20_NetCentredLayout ==
  shown.face # "square" =>
    LET layout == layoutOf[shown] IN
    /\ Len(shown.net) = Len(shown.folded)
    /\ Len(layout) = Len(shown.folded)
    /\ \A i \in 1 .. (Len(shown.folded) - 1) : PlacedAcross(i)
    /\ MEq(shown.net[1].quaternion.R, MIdentity)
    /\ shown.net[1].quaternion.sg = 1
    /\ VEq(layout[1].position, VZero)
    /\ VEq(MeanPosition(shown.net), VZero)
    /\ \A i \in 1 .. Len(layout) :
         /\ shown.net[i].quaternion = layout[i].quaternion
         /\ VEq(VSub(shown.net[i].position, shown.net[1].position), layout[i].position)
\* The net of the icosahedron: 20 poses, face 0 moved off the origin by the
\* centering and not turned.
C20_Witness ==
  /\ polyId = "icosa"
  /\ Len(shown.net) = 20
  /\ ~VEq(shown.net[1].position, VZero)
  /\ VEq(MeanPosition(shown.net), VZero)
  /\ MEq(shown.net[1].quaternion.R, MIdentity)
  /\ \E i \in 2 .. 20 : ~MEq(shown.net[i].quaternion.R, MIdentity)

----------------------------------------------------------------------------
(***************************************************************************)
(* THE OBJECTS WRITTEN.  The vectors, quaternions and matrices of three.js *)
(* are objects, and most of their methods (add, sub, normalize, multiply,  *)
(* invert, slerp, applyQuaternion, ...) change the object they are called  *)
(* on.  An object is named by its owner (the def and the model handed to a *)
(* call, or the call itself for what it creates), its part and its face.   *)
(* For each function, the objects on which it calls such a method.         *)
(***************************************************************************)
Obj(owner, part, face) == [owner |-> owner, part |-> part, face |-> face]
Local(part, face) == Obj("local", part, face)

\* No copy is made: the fault of a missing clone().
sameObject(source, fresh) == source
\* source.clone(): a new object, named fresh after the place of the call.
clone(source, fresh) == fresh

\* netAdjEdges: v.clone().applyQuaternion(p.quaternion).add(p.position) for
\* the n local vertices v, which localVerts3 creates, and every face.
netAdjEdgesWrites(part, faceCount, n) ==
  { clone(Local("vertsLocal", k), Local(part, fi * n + k)) :
      fi \in 0 .. (faceCount - 1), k \in 0 .. (n - 1) }

\* signedAngleAroundAxis(from, to, axis) for the hinge of face i
signedAngleWrites(from, to, axis, i) ==
  LET a == clone(axis, Local("angle.a", i))
      v0 == clone(from, Local("angle.v0", i))
      v1 == clone(to, Local("angle.v1", i))
  IN { a, v0, v1,
       clone(a, Local("angle.a.scaled0", i)), clone(a, Local("angle.a.scaled1", i)),
       clone(v0, Local("angle.cross", i)) }

\* buildHingeModel(def), which returns model: the faces with a hinge are
\* those of model.  The local vertex pB of the hinge of face i is named by
\* the face.
buildHingeModelWrites(def, model) ==
  LET n == Len(localVerts3(def.face, def.edge))
      hinged == { i \in 0 .. (def.faceCount - 1) : model.hinges[i + 1] # Null }
      netM(f) == Local("netM", f)
      foldM(f) == Local("foldM", f)
      hingeWrites(i) ==
        LET par == model.hinges[i + 1][1].parent
            relNet == clone(netM(par), Local("relNet", i))
            relFold == clone(foldM(par), Local("relFold", i))
            n0 == clone(Local("localNormal", 0), Local("n0", i))
            n1 == clone(Local("localNormal", 0), Local("n1", i))
            axis == clone(Local("vertsLocal.pB", i), Local("axis", i))
        IN { relNet, relFold, Local("qRelNet", i), Local("qRelFold", i), n0, n1, axis }
             \cup signedAngleWrites(n0, n1, axis, i)
  IN netAdjEdgesWrites("wverts.folded", def.faceCount, n)
       \cup netAdjEdgesWrites("wverts.net", def.faceCount, n)
       \cup { netM(f) : f \in 0 .. (Len(def.net) - 1) }
       \cup { foldM(f) : f \in 0 .. (Len(def.folded) - 1) }
       \cup UNION { hingeWrites(i) : i \in hinged }

\* worldM[f] of hingePoses for a face f whose matrix is set: the matrix of
\* poseToMatrix for the root, parentM.clone() for another face.
RECURSIVE worldObject(_, _, _)
worldObject(model, f, n) ==
  IF f = model.root \/ n = 0 THEN Local("worldM", f)
  ELSE clone(worldObject(model, model.hinges[f + 1][1].parent, n - 1), Local("worldM", f))

\* hingePoses(def, model, t): the writes are the same at every t.
hingePosesWrites(def, model, k) ==
  LET root == model.root
      set == { f \in 0 .. (def.faceCount - 1) : Resolved(model, f, def.faceCount) }
      q == clone(Obj("def", "net.quaternion", root), Local("rootPose.quaternion", root))
  IN { q }
       \cup { worldObject(model, f, def.faceCount) : f \in set }
       \cup UNION { { Local("T1", f), Local("T2", f), Local("R", f) } : f \in set \ { root } }
       \cup UNION { { Local("pose.position", f), Local("pose.quaternion", f), Local("pose.scale", f) } :
                      f \in set }

buildWritesOf == [d \in AllDefs |-> buildHingeModelWrites(d, hingeModelOf[d])]
posesWritesOf == [d \in AllDefs, q \in Quarters |-> hingePosesWrites(d, hingeModelOf[d], q)]
severedWritesOf == [d \in AllDefs, q \in Quarters |-> hingePosesWrites(d, severedModelOf[d], q)]
IsInput(o) == o.owner \in { "def", "model" }

\* C14: buildHingeModel(def) and hingePoses(def, model, t) change none of
\* their inputs in place, whatever the calls made and the values of t: no
\* object of def (positions and quaternions of net and folded) and no
\* object of model (axis, point and relNet of a hinge) is written.
C14_InputsNotWritten ==
  \A o \in buildWritesOf[shown] \cup posesWritesOf[shown, t] \cup severedWritesOf[shown, t] :
    ~IsInput(o)
\* The icosahedron half folded: hingePoses has turned a copy of the
\* quaternion of the root by slerp and multiplied a copy of the matrix of
\* the parent of face 19 (with a hinge missing, some face gets no matrix),
\* and buildHingeModel has inverted copies of the matrices of the net.
C14_Witness ==
  /\ polyId = "icosa" /\ t = 2
  /\ Local("rootPose.quaternion", 0) \in posesWritesOf[shown, t]
  /\ Local("worldM", 19) \in posesWritesOf[shown, t]
  /\ \E f \in 1 .. 19 : Local("worldM", f) \notin severedWritesOf[shown, t]
  /\ Cardinality({ o \in buildWritesOf[shown] : o.part = "relNet" }) = 19

----------------------------------------------------------------------------
(***************************************************************************)
(* THE HINGE TREE.  The search of buildHingeModel for the definition       *)
(* shown, and the records of the adjacency of its net.                     *)
(***************************************************************************)
hingeTreeOf == [d \in AllDefs |-> hingeTree(d)]
searchTree == hingeTreeOf[shown]
\* The faces, numbered from 0, that the search gave a parent other than
\* themselves.
NonRoot == { i \in 0 .. (shown.faceCount - 1) : i # 0 /\ searchTree.parent[i + 1] # 0 - 1 }
\* The local edge index on face f of a record of the adjacency.
EdgeIn(r, f) == IF r.a = f THEN r.edgeA ELSE r.edgeB
\* The records of the adjacency of the net that join faces p and c.
SharedRecords(p, c) ==
  { j \in 1 .. Len(netAdj) : { netAdj[j].a, netAdj[j].b } = { p, c } }

\* C21 (as amended): for each non-root face i with parent p, the local edge
\* index e used to build the hinge of i is the index of the shared edge in
\* the local frame of the parent p, not of face i: the net joins p and i
\* along edge e of p; and the hinge of i has parent p, its pivot at local
\* vertex e and its axis the unit vector from local vertex e to e + 1.
C21_HingeEdgeInParentFrame ==
  /\ \A i \in NonRoot :
       \E j \in SharedRecords(searchTree.parent[i + 1], i) :
         EdgeIn(netAdj[j], searchTree.parent[i + 1]) = hingeEdge(searchTree, i)
  /\ \A i \in NonRoot :
       LET h == hingeModel.hinges[i + 1]
           e == hingeEdge(searchTree, i)
           n == Len(vertsLocal)
       IN /\ h # Null
          /\ h[1].parent = searchTree.parent[i + 1]
          /\ VEq(h[1].point, vertsLocal[e + 1])
          /\ VEq(h[1].axis, Normalize(VSub(vertsLocal[((e + 1) % n) + 1], vertsLocal[e + 1])))
\* The dodecahedron: eleven hinges, each on the edge of the parent, and a
\* face whose own index for the shared edge is another one.
C21_Witness ==
  /\ polyId = "dodeca"
  /\ Cardinality(NonRoot) = 11
  /\ \A i \in NonRoot :
       \E j \in SharedRecords(searchTree.parent[i + 1], i) :
         /\ EdgeIn(netAdj[j], searchTree.parent[i + 1]) = hingeEdge(searchTree, i)
         /\ VEq(hingeModel.hinges[i + 1][1].point, vertsLocal[hingeEdge(searchTree, i) + 1])
  /\ \E i \in NonRoot :
       \E j \in SharedRecords(searchTree.parent[i + 1], i) :
         EdgeIn(netAdj[j], i) # hingeEdge(searchTree, i)
\* C21 as stated: the local edge index used to build the hinge of face i
\* is the index of the shared edge in the local frame of face i itself.
C21_HingeEdgeInChildFrame ==
  \A i \in NonRoot :
    \E j \in SharedRecords(searchTree.parent[i + 1], i) :
      EdgeIn(netAdj[j], i) = hingeEdge(searchTree, i)

\* Point x is on the line through point with direction axis.
OnLine(x, point, axis) ==
  LET c == Cross(VSub(x, point), axis)
  IN IsZero(c[1]) /\ IsZero(c[2]) /\ IsZero(c[3])
\* The hinge of face i (numbered from 0) is on edge e of its parent, and
\* edge c of face i, taken to the frame of the parent by relNet, is on the
\* line of the hinge.
HingeOnSharedEdge(i, e, c) ==
  LET h == hingeModel.hinges[i + 1][1]
      n == Len(vertsLocal)
      pA == vertsLocal[e + 1]
      pB == vertsLocal[((e + 1) % n) + 1]
      cA == applyMatrix4(vertsLocal[c + 1], h.relNet).v
      cB == applyMatrix4(vertsLocal[((c + 1) % n) + 1], h.relNet).v
  IN /\ VEq(h.point, pA)
     /\ NumEq(Dot(h.axis, h.axis), One)
     /\ VEq(VScale(h.axis, Length(VSub(pB, pA))), VSub(pB, pA))
     /\ OnLine(cA, h.point, h.axis) /\ OnLine(cB, h.point, h.axis)
     /\ ~VEq(cA, cB)

\* C22: for every hinge, the axis is a unit vector along the shared edge in
\* the local frame of the parent, from the start local vertex of the edge to
\* its end local vertex, the pivot is the start local vertex, and the shared
\* edge of the child, taken to the frame of the parent by the net-relative
\* transform, lies on the line through the pivot with direction axis.
C22_AxisAlongSharedEdge ==
  \A i \in 0 .. (shown.faceCount - 1) :
    hingeModel.hinges[i + 1] # Null =>
      \E j \in SharedRecords(hingeModel.hinges[i + 1][1].parent, i) :
        HingeOnSharedEdge(i, EdgeIn(netAdj[j], hingeModel.hinges[i + 1][1].parent),
                          EdgeIn(netAdj[j], i))
\* The icosahedron with an edge other than 1: nineteen hinges, the edge
\* vector longer or shorter than the axis.
C22_Witness ==
  /\ polyId = "icosa" /\ polyEdge # One
  /\ Cardinality(Hinged) = 19
  /\ \A i \in 1 .. 19 :
       \E j \in SharedRecords(hingeModel.hinges[i + 1][1].parent, i) :
         HingeOnSharedEdge(i, EdgeIn(netAdj[j], hingeModel.hinges[i + 1][1].parent),
                           EdgeIn(netAdj[j], i))
  /\ \A i \in 1 .. 19 :
       ~VEq(hingeModel.hinges[i + 1][1].axis,
            VSub(vertsLocal[((HingeEdge(i + 1) + 1) % 3) + 1], vertsLocal[HingeEdge(i + 1) + 1]))

----------------------------------------------------------------------------
(***************************************************************************)
(* A HINGE WITHOUT AN ANGLE.  In the five solids no face normal is along   *)
(* a hinge axis.  A cube whose folded poses of faces 1 and 4 are exchanged *)
(* keeps every pair of the net adjacent in the folded poses, while the     *)
(* folded normals of faces 1 and 4, seen from the root, point along the    *)
(* edges of the root on which the net hinges them.                         *)
(***************************************************************************)
TwistedCube(d) ==
  [d EXCEPT !.folded[2] = d.folded[5], !.folded[5] = d.folded[2]]
twistedDefOf == [e \in Edges |-> TwistedCube(usePolyDefs[e][1])]
twistedModelOf == [e \in Edges |-> buildHingeModel(twistedDefOf[e])]
\* The part of n across the unit vector a, and its length l0 or l1.
Across(n, a) == VSub(n, VScale(a, Dot(a, n)))
\* The normals n0 and n1 of face i (numbered from 0) of def d seen from
\* face p, in the net and in the folded poses.
NormalsOf(d, p, i) ==
  LET relNet == multiply(invert(poseToMatrix(d.net[p + 1])), poseToMatrix(d.net[i + 1]))
      relFold == multiply(invert(poseToMatrix(d.folded[p + 1])), poseToMatrix(d.folded[i + 1]))
  IN << Normalize(MApply(relNet.R, ZAxis)), Normalize(MApply(relFold.R, ZAxis)) >>
\* One of the two normals of face i has no part across the axis of the
\* hinge h.
Degenerate(d, h, i) ==
  LET ns == NormalsOf(d, h.parent, i)
  IN \/ IsZero(Length(Across(ns[1], h.axis)))
     \/ IsZero(Length(Across(ns[2], h.axis)))

\* C23: signedAngleAroundAxis returns exactly 0, a zero-angle hinge and no
\* NaN, whenever the part of from or of to across the axis has length 0
\* (below 1e-10), whichever of the two it is; and buildHingeModel records a
\* hinge for every face reached, with angle 0 for a face one of whose
\* normals is along the hinge axis.
C23_ZeroAngleHinge ==
  LET d == twistedDefOf[polyEdge]
      m == twistedModelOf[polyEdge]
  IN \A i \in 1 .. (d.faceCount - 1) :
       /\ m.hinges[i + 1] # Null
       /\ Degenerate(d, m.hinges[i + 1][1], i) => m.hinges[i + 1][1].angle = Deg3(0)
       /\ \A n \in { NormalsOf(d, m.hinges[i + 1][1].parent, i)[k] : k \in 1 .. 2 } :
            /\ signedAngleAroundAxis(m.hinges[i + 1][1].axis, n, m.hinges[i + 1][1].axis) = Deg3(0)
            /\ signedAngleAroundAxis(n, m.hinges[i + 1][1].axis, m.hinges[i + 1][1].axis) = Deg3(0)
\* Faces 1 and 4 of the cube with exchanged folded poses: the folded normal
\* is along the axis, the hinge is there and its angle is 0, while face 2
\* turns by a quarter.
C23_Witness ==
  LET d == twistedDefOf[polyEdge]
      m == twistedModelOf[polyEdge]
  IN /\ \A i \in { 1, 4 } :
          /\ m.hinges[i + 1] # Null
          /\ m.hinges[i + 1][1].parent = 0
          /\ VEq(Across(NormalsOf(d, 0, i)[2], m.hinges[i + 1][1].axis), VZero)
          /\ ~VEq(Across(NormalsOf(d, 0, i)[1], m.hinges[i + 1][1].axis), VZero)
          /\ m.hinges[i + 1][1].angle = Deg3(0)
     /\ ~Degenerate(d, m.hinges[3][1], 2)
     /\ m.hinges[3][1].angle # Deg3(0)

----------------------------------------------------------------------------
\* The quantized ends ka and kb of edge e of face f (numbered from 0) of a
\* layout, in the direction in which the face runs along it.
EndKeys(layout, f, e) ==
  LET w == EdgeUnder(layout[f + 1], e)
  IN << quantKey3(w[1]), quantKey3(w[2]) >>
\* Pushes i and j of a layout are of edges with the same two quantized ends.
SameEnds(layout, pushes, i, j) ==
  LET a == EndKeys(layout, pushes[i].fi, pushes[i].edgeIndex)
      b == EndKeys(layout, pushes[j].fi, pushes[j].edgeIndex)
  IN { a[1], a[2] } = { b[1], b[2] }
\* Pushes i and j are of one edge run along in opposite directions.
Opposite(layout, pushes, i, j) ==
  LET a == EndKeys(layout, pushes[i].fi, pushes[i].edgeIndex)
      b == EndKeys(layout, pushes[j].fi, pushes[j].edgeIndex)
  IN a[1] = b[2] /\ a[2] = b[1] /\ a[1] # a[2]

\* C24: the edge key does not depend on the direction: the key of the ends
\* (a, b) is the key of (b, a), two edges of the net or of the folded poses
\* with the same two quantized ends are pushed under the same key, and two
\* faces that run along a shared edge in opposite directions are matched by
\* a record of the adjacency.
C24_KeyDirectionIndependent ==
  \A k \in 1 .. 2 :
    LET layout == LayoutOf(shown, k)
        pushes == pushesOf[shown, k]
        adj == adjOf[shown, k]
    IN \A i \in 1 .. Len(pushes) :
         LET a == EndKeys(layout, pushes[i].fi, pushes[i].edgeIndex)
         IN /\ pushes[i].key = edgeKey(a[1], a[2])
            /\ edgeKey(a[1], a[2]) = edgeKey(a[2], a[1])
            /\ \A j \in (i + 1) .. Len(pushes) :
                 /\ SameEnds(layout, pushes, i, j) => pushes[i].key = pushes[j].key
                 /\ Opposite(layout, pushes, i, j) =>
                      \E x \in 1 .. Len(adj) : Joins(pushes, adj[x], i, j)
\* The folded icosahedron: thirty edges, each run along by its two faces in
\* opposite directions and matched under one key.
C24_Witness ==
  /\ polyId = "icosa"
  /\ LET layout == LayoutOf(shown, 2)
         pushes == pushesOf[shown, 2]
         opposite == { ij \in (1 .. Len(pushes)) \X (1 .. Len(pushes)) :
                         ij[1] < ij[2] /\ Opposite(layout, pushes, ij[1], ij[2]) }
     IN /\ Cardinality(opposite) = 30
        /\ \A ij \in opposite :
             /\ pushes[ij[1]].key = pushes[ij[2]].key
             /\ \E x \in 1 .. Len(adjOf[shown, 2]) : Joins(pushes, adjOf[shown, 2][x], ij[1], ij[2])

----------------------------------------------------------------------------
(***************************************************************************)
(* OUTSIDE [0, 1].  The slider keeps t between 0 and 1; hingePoses is      *)
(* exported and takes any number.  Here it is called at t = -1, -0.5, 1.5  *)
(* and 2, in quarters.                                                     *)
(***************************************************************************)
Outside == { 0 - 4, 0 - 2, 6, 8 }
outsidePosesOf == [d \in AllDefs, k \in Outside |-> hingePoses(d, hingeModelOf[d], k)]
\* The position of the root pose, which is kept apart when the root pose is
\* an interpolated one.
RootPosition(facePoses, root) ==
  IF facePoses[root + 1].root = World THEN facePoses[root + 1].position
  ELSE facePoses[root + 1].root.position
\* The transform from the parent of face i (an index of hinges) to face i
\* in the poses.
RelIn(facePoses, i) ==
  LET h == hingeModel.hinges[i][1]
  IN multiply(invert(poseToMatrix(facePoses[h.parent + 1])), poseToMatrix(facePoses[i]))
SameRel(a, b) == MEq(a.R, b.R) /\ VEq(a.p, b.p)
\* The root position a + (b - a) * t and the turn of every hinge by
\* angle * t at t = k / 4.
Extrapolated(facePoses, k) ==
  LET root == hingeModel.root
      a == shown.net[root + 1].position
      b == shown.folded[root + 1].position
  IN /\ Len(facePoses) = shown.faceCount
     /\ VEq(RootPosition(facePoses, root), VAdd(a, VScale(VSub(b, a), Rat(k, 4))))
     /\ \A i \in Hinged :
          LET h == hingeModel.hinges[i][1]
              turn == [kind |-> h.angle.kind, n |-> (h.angle.n * k) \div 4]
          IN /\ (h.angle.n * k) % 4 = 0
             /\ facePoses[i].root = facePoses[h.parent + 1].root
             /\ SameRel(RelIn(facePoses, i),
                        multiply(rotationAroundAxisLine(h.axis, h.point, turn), h.relNet))
\* Nothing is held at the net below 0 or at the folded solid above 1.
NotSaturated(facePoses, k) ==
  LET root == hingeModel.root
      end == IF k < 0 THEN shown.net ELSE shown.folded
  IN /\ ~VEq(RootPosition(facePoses, root), end[root + 1].position)
     /\ \A i \in Hinged :
          ~SameRel(RelIn(facePoses, i),
                   IF k < 0 THEN hingeModel.hinges[i][1].relNet ELSE relFoldOf(i))

\* C25: hingePoses does not clamp t: at t = -1, -0.5, 1.5 and 2 the root
\* position is net[root] + (folded[root] - net[root]) * t and every hinged
\* face is turned by exactly angle * t about its hinge from its net-relative
\* transform; the poses go past the net and past the folded solid instead
\* of staying there.
C25_NoClampOutside ==
  \A k \in Outside :
    /\ Extrapolated(outsidePosesOf[shown, k], k)
    /\ NotSaturated(outsidePosesOf[shown, k], k)
\* The dodecahedron at t = 2 and at t = -1: every hinge turned by twice its
\* fold angle, or by the fold angle backwards.
C25_Witness ==
  /\ polyId = "dodeca"
  /\ Cardinality(Hinged) = 11
  /\ \A i \in Hinged :
       /\ hingeModel.hinges[i][1].angle.n = 4
       /\ SameRel(RelIn(outsidePosesOf[shown, 8], i),
                  multiply(rotationAroundAxisLine(hingeModel.hinges[i][1].axis, hingeModel.hinges[i][1].point,
                                                  [kind |-> "dodeca", n |-> 8]),
                           hingeModel.hinges[i][1].relNet))
       /\ ~SameRel(RelIn(outsidePosesOf[shown, 8], i), relFoldOf(i))
       /\ ~SameRel(RelIn(outsidePosesOf[shown, 0 - 4], i), hingeModel.hinges[i][1].relNet)

----------------------------------------------------------------------------
\* Some face pushes two of its own edges under one key.
SelfPaired(pushes) ==
  \E i, j \in 1 .. Len(pushes) :
    i < j /\ pushes[i].fi = pushes[j].fi /\ pushes[i].key = pushes[j].key
\* The faces joined to face f by a record of adj.
Neighbours(adj, f) ==
  { adj[x].b : x \in { y \in 1 .. Len(adj) : adj[y].a = f } }
    \cup { adj[x].a : x \in { y \in 1 .. Len(adj) : adj[y].b = f } }
\* The number of faces of a layout.
FacesOf(pushes, n) == Len(pushes) \div n

\* C26: in the records of netAdjEdges, for the net, the folded poses and a
\* net with a face laid down twice, every (face, local edge index) pair is
\* in at most one record; in every record a is the face visited first, so
\* a <= b, and a < b when no face pushes two of its edges under one key;
\* and a face with n sides has at most n neighbours.
C26_OneRecordPerFaceEdge ==
  \A k \in Layouts :
    LET adj == adjOf[shown, k]
        pushes == pushesOf[shown, k]
        n == Len(vertsLocal)
    IN /\ \A f \in 0 .. (FacesOf(pushes, n) - 1) :
            /\ \A e \in 0 .. (n - 1) : Cardinality(RecordsAt(adj, f, e)) <= 1
            /\ Cardinality(Neighbours(adj, f)) <= n
       /\ \A x \in 1 .. Len(adj) :
            /\ PushOf(pushes, adj[x].a, adj[x].edgeA) < PushOf(pushes, adj[x].b, adj[x].edgeB)
            /\ adj[x].a <= adj[x].b
            /\ ~SelfPaired(pushes) => adj[x].a < adj[x].b
\* The net of the dodecahedron: a face with five neighbours, edges of the
\* outline in no record, and every record with its faces in order.
C26_Witness ==
  /\ polyId = "dodeca"
  /\ ~SelfPaired(pushesOf[shown, 1])
  /\ \E f \in 0 .. 11 : Cardinality(Neighbours(adjOf[shown, 1], f)) = 5
  /\ \E f \in 0 .. 11 : \E e \in 0 .. 4 : RecordsAt(adjOf[shown, 1], f, e) = { }
  /\ Len(adjOf[shown, 1]) >= 11
  /\ \A x \in 1 .. Len(adjOf[shown, 1]) : adjOf[shown, 1][x].a < adjOf[shown, 1][x].b

----------------------------------------------------------------------------
(***************************************************************************)
(* THE WALK.  The intersected adjacency as a set of pairs of faces, the    *)
(* faces at each distance from face 0 in it, and what buildHingeModel      *)
(* returns measured against them.                                          *)
(***************************************************************************)
Intersected(netRecords, foldedRecords) == FacePairs(netRecords) \cap FacePairs(foldedRecords)
\* The faces within n steps of face 0.
RECURSIVE Within(_, _)
Within(pairs, n) ==
  IF n = 0 THEN { 0 }
  ELSE LET near == Within(pairs, n - 1)
       IN near \cup { f \in UNION pairs : \E g \in near : { f, g } \in pairs }
\* The number of steps from face 0 to face f, which is within faceCount
\* steps of it.
LevelOf(pairs, f, faceCount) ==
  CHOOSE n \in 0 .. faceCount : f \in Within(pairs, n) /\ (n > 0 => f \notin Within(pairs, n - 1))
WalkIsBreadthFirst(model, pairs, faceCount) ==
  LET reach == Within(pairs, faceCount)
      order == model.order
  IN /\ model.root = 0
     /\ Len(model.hinges) = faceCount
     /\ { order[j] : j \in 1 .. Len(order) } = reach
     /\ Len(order) = Cardinality(reach)
     /\ \A i \in 0 .. (faceCount - 1) :
          (model.hinges[i + 1] # Null) <=> (i # 0 /\ i \in reach)
     /\ \A i \in reach \ { 0 } :
          /\ { model.hinges[i + 1][1].parent, i } \in pairs
          /\ LevelOf(pairs, model.hinges[i + 1][1].parent, faceCount)
               = LevelOf(pairs, i, faceCount) - 1

\* C27: for the five definitions and for a cube laid out with a face that
\* the folded solid does not join to its neighbour of the net, the walk of
\* buildHingeModel ends and returns root = 0, an order that lists the faces
\* reachable from face 0 in the intersected adjacency, each once, a hinge
\* for exactly the faces of order other than the root, and for parent of a
\* face a neighbour one breadth-first level closer to the root.
C27_BreadthFirstWalk ==
  /\ WalkIsBreadthFirst(hingeModel, Intersected(netAdj, foldedAdj), shown.faceCount)
  /\ WalkIsBreadthFirst(strayModelOf[polyEdge],
                        Intersected(strayNetAdjOf[polyEdge], strayFoldedAdjOf[polyEdge]),
                        strayDefOf[polyEdge].faceCount)
\* The icosahedron, with faces five levels from the root, next to the stray
\* cube, whose face 5 is out of reach: not in order and without a hinge.
C27_Witness ==
  /\ polyId = "icosa"
  /\ Len(hingeModel.order) = 20
  /\ \E i \in 1 .. 19 : LevelOf(Intersected(netAdj, foldedAdj), i, 20) >= 5
  /\ Len(strayModelOf[polyEdge].order) = 5
  /\ 5 \notin Within(Intersected(strayNetAdjOf[polyEdge], strayFoldedAdjOf[polyEdge]), 6)
  /\ { 4, 5 } \in FacePairs(strayNetAdjOf[polyEdge])
  /\ strayModelOf[polyEdge].hinges[6] = Null

----------------------------------------------------------------------------
\* The solids whose net the layout engine makes.
LaidOut == { "tetra", "octa", "icosa", "dodeca" }

\* C28: for the tetrahedron, the octahedron, the icosahedron and the
\* dodecahedron the tree of the hinge model is the tree of the net layout:
\* every face other than the root has the same parent in both, and the
\* local edge of the parent that gives the hinge its axis and pivot is the
\* local edge of the parent along which the layout attached the face.
C28_HingeTreeIsNetTree ==
  polyId \in LaidOut =>
    /\ \A i \in 1 .. (shown.faceCount - 1) :
         /\ netTree.parent[i + 1] \in 0 .. (shown.faceCount - 1)
         /\ searchTree.parent[i + 1] = netTree.parent[i + 1]
         /\ hingeEdge(searchTree, i) = netTree.parentEdge[i + 1]
    /\ \A i \in 1 .. (shown.faceCount - 1) :
         /\ hingeModel.hinges[i + 1] # Null
         /\ hingeModel.hinges[i + 1][1].parent = netTree.parent[i + 1]
         /\ HingeEdge(i + 1) = netTree.parentEdge[i + 1]
\* The dodecahedron: eleven faces attached by the layout, on more than one
\* edge of more than one parent, each hinged where it was attached.
C28_Witness ==
  /\ polyId = "dodeca"
  /\ Cardinality({ netTree.parent[i + 1] : i \in 1 .. 11 }) > 1
  /\ Cardinality({ netTree.parentEdge[i + 1] : i \in 1 .. 11 }) > 1
  /\ \A i \in 1 .. 11 :
       /\ hingeModel.hinges[i + 1][1].parent = netTree.parent[i + 1]
       /\ HingeEdge(i + 1) = netTree.parentEdge[i + 1]

----------------------------------------------------------------------------
\* The parent of each face of the cube other than face 0.
CubeParents == << 0, 0, 2, 0, 0 >>

\* C29: for the cube, buildHingeModel returns root 0 and exactly five
\* hinges: faces 1, 2, 4 and 5 hinge on face 0 and face 3 on face 2; every
\* hinge angle is a quarter turn one way or the other; and at t = 1 every
\* face has its folded pose.
C29_CubeHinges ==
  polyId = "cube" =>
    /\ hingeModel.root = 0
    /\ hingeModel.hinges[1] = Null
    /\ Cardinality(Hinged) = 5
    /\ \A i \in 1 .. 5 :
         /\ hingeModel.hinges[i + 1] # Null
         /\ hingeModel.hinges[i + 1][1].parent = CubeParents[i]
         /\ ToDeg3(hingeModel.hinges[i + 1][1].angle) \in { Pi \div 2, 0 - (Pi \div 2) }
         /\ IsZero(Cos(hingeModel.hinges[i + 1][1].angle))
    /\ \A i \in 1 .. 6 : SamePlacement(posesOf[shown, 4][i], shown.folded[i])
\* The cube folded all the way: five faces turned out of the plane of the
\* net, face 3 by two quarter turns, its own and that of face 2.
C29_Witness ==
  /\ polyId = "cube" /\ t = 4
  /\ hingeModel.hinges[4][1].parent = 2
  /\ \A i \in 2 .. 6 :
       /\ SamePlacement(poses[i], shown.folded[i])
       /\ ~MEq(poses[i].quaternion.R, shown.net[i].quaternion.R)
  /\ VEq(MApply(poses[4].quaternion.R, ZAxis), VSub(VZero, ZAxis))

----------------------------------------------------------------------------
\* The definition shown is one of the five, and the first one, the cube,
\* for an id that none of them has.
ShownIsOneOfFive ==
  /\ Len(defs) = 5
  /\ shown \in { defs[i] : i \in 1 .. 5 }
  /\ shown.id = polyId
  /\ \A id \in { Solids[i] : i \in 1 .. 5 } \cup { "sphere" } :
       /\ find(defs, id) \in { defs[i] : i \in 1 .. 5 }
       /\ (\A i \in 1 .. 5 : defs[i].id # id) => find(defs, id) = defs[1] /\ defs[1].id = "cube"
\* A step that selects another polyhedron or toggles auto-rotate keeps t.
FoldKept == (polyId' # polyId \/ autoRotate' # autoRotate) => t' = t

\* C30: from (polyId = cube, t = 0, autoRotate = true), after any sequence
\* of slider changes, net, solid and reset buttons, selections and toggles
\* of auto-rotate, t is in [0, 1], the definition shown is one of the five
\* (the cube for an id that is not found), and a selection or a toggle of
\* auto-rotate leaves t as it is.
C30_FoldInRangeAndKept ==
  /\ [](t \in 0 .. 4 /\ T(t)[2] >= 0 /\ T(t)[2] <= Scale /\ ShownIsOneOfFive)
  /\ [][FoldKept]_vars
\* The dodecahedron half folded with auto-rotate off: reached by a slider
\* change, a selection and a toggle.
C30_Witness ==
  /\ polyId = "dodeca" /\ t = 2 /\ autoRotate = FALSE
  /\ shown = defs[5]
  /\ T(t) = Rat(1, 2)

====
